---- MODULE Spec2Model ----
(***************************************************************************)
(* archive_r: the archive-stack cursor, the orchestrator that drives it,   *)
(* the Entry handle and the Traverser iterator, as a state machine.        *)
(*                                                                         *)
(* Objects that the C++ code shares through std::shared_ptr (data streams  *)
(* and StreamArchive decoders) live in two heaps, S and A, inside a cursor *)
(* record; a reference is the object's id, 0 is nullptr.  An operation     *)
(* that may throw returns a result record whose field exc names the        *)
(* exception class ("none", "fault" = EntryFaultError, "logic" =           *)
(* std::logic_error, "invalid" = std::invalid_argument).                   *)
(***************************************************************************)
EXTENDS Integers, Sequences, FiniteSets, TLC

(***************************************************************************)
(* Path hierarchy                                                          *)
(***************************************************************************)

\* PathEntry::single(name)
Single(n) == [k |-> "s", v |-> <<n>>, o |-> "-"]

\* Lexicographic rank of the part names used for Natural ordering.
NameRank(n) ==
  CASE n = "p1" -> 1
    [] n = "p2" -> 2
    [] OTHER -> 3

RECURSIVE InsertSorted(_, _)
InsertSorted(x, s) ==
  IF s = <<>> THEN <<x>>
  ELSE IF NameRank(x) < NameRank(Head(s)) THEN <<x>> \o s
       ELSE <<Head(s)>> \o InsertSorted(x, Tail(s))

RECURSIVE SortNames(_)
SortNames(s) == IF s = <<>> THEN <<>> ELSE InsertSorted(Head(s), SortNames(Tail(s)))

\* PathEntry::multi_volume(parts, ordering): Natural sorts the parts at
\* construction, Given keeps the caller's order.
MultiVolume(parts, ord) ==
  [k |-> "m", v |-> IF ord = "N" THEN SortNames(parts) ELSE parts, o |-> ord]

\* make_single_path(path)
make_single_path(p) == <<Single(p)>>

\* append_single(h, name)
append_single(h, n) == Append(h, Single(n))

\* pathhierarchy_prefix_until(h, k): components 0..k (k is 0-based), or
\* empty when out of range.
pathhierarchy_prefix_until(h, k) ==
  IF k + 1 > Len(h) THEN <<>> ELSE SubSeq(h, 1, k + 1)

\* pathhierarchy_select_single_part(h, i): the tail replaced by Single of
\* its i-th part (i is 0-based).
pathhierarchy_select_single_part(h, i) ==
  [h EXCEPT ![Len(h)] = Single(h[Len(h)].v[i + 1])]

\* hierarchies_equal(a, b): componentwise
hierarchies_equal(a, b) == a = b

\* a is a strict prefix of b
IsStrictPrefix(a, b) == Len(a) < Len(b) /\ SubSeq(b, 1, Len(a)) = a

\* The parent of an entry hierarchy (the hierarchy without its tail).
ParentOf(h) == IF h = <<>> THEN <<>> ELSE SubSeq(h, 1, Len(h) - 1)

(***************************************************************************)
(* The host filesystem and the archive images the traversals run over.     *)
(* Bytes are small numbers; an archive image is recognised by its bytes.   *)
(***************************************************************************)

\* Kind of a host path.
HostKind(p) ==
  CASE p \in {"R", "D/g", "D/s/h", "p1", "p2"} -> "file"
    [] p \in {"D", "D/s"} -> "dir"
    [] p = "D/s/u" -> "unreadable"
    [] OTHER -> "none"

\* Bytes of a host file.
HostBytes(p) ==
  CASE p = "R" -> <<1, 2>>
    [] p = "D/g" -> <<14>>
    [] p = "D/s/h" -> <<15, 16>>
    [] p = "p1" -> <<10>>
    [] p = "p2" -> <<11>>
    [] OTHER -> <<>>

\* errno of fopen(p, "rb") on a host path: ENOENT for a path that does not
\* exist, EACCES for an unreadable file, 0 when the file opens.
HostErrno(p) ==
  CASE HostKind(p) = "none" -> 2
    [] HostKind(p) = "unreadable" -> 13
    [] OTHER -> 0

\* Children of a host directory, in lexicographic order.
DirList(p) ==
  CASE p = "D" -> <<"D/g", "D/s">>
    [] p = "D/s" -> <<"D/s/h", "D/s/u">>
    [] OTHER -> <<>>

\* Payload bytes of the archive entry called n.
NameBytes(n) ==
  CASE n = "a" -> <<3, 4>>
    [] n = "b" -> <<5, 6>>
    [] n = "z" -> <<7>>
    [] n = "c" -> <<8, 8>>
    [] n = "t" -> <<20, 21, 22>>
    [] n = "p1" -> <<10>>
    [] n = "p2" -> <<11>>
    [] n = "f" -> <<12, 13>>
    [] OTHER -> <<>>

\* The format decoder: the header names of the archive whose image is
\* exactly bytes, or "bad" when the bytes are no archive image.
Decode(bytes) ==
  CASE bytes = <<1, 2>> -> [ok |-> TRUE, hdrs |-> <<"a", "c", "z", "t">>]
    [] bytes = <<3, 4>> -> [ok |-> TRUE, hdrs |-> <<"b", "p1", "p2", "t">>]
    [] bytes = <<5, 6>> -> [ok |-> TRUE, hdrs |-> <<"", "t">>]
    [] bytes = <<7>> -> [ok |-> TRUE, hdrs |-> <<>>]
    [] bytes = <<10, 11>> -> [ok |-> TRUE, hdrs |-> <<"f">>]
    [] bytes = <<14>> -> [ok |-> TRUE, hdrs |-> <<"t">>]
    [] OTHER -> [ok |-> FALSE, hdrs |-> <<>>]

(***************************************************************************)
(* Results of operations that may throw, and the two heaps                 *)
(***************************************************************************)

\* A local variable: v is evaluated once and Op is applied to its value.
Let(v, Op(_)) == CHOOSE y \in {Op(x) : x \in {v}} : TRUE

Res(c, ret, exc, fh) == [c |-> c, ret |-> ret, exc |-> exc, fh |-> fh]

Ok(c, ret) == Res(c, ret, "none", <<>>)

Min(a, b) == IF a < b THEN a ELSE b

\* The smallest id not used in a heap: the identity of a newly made object.
FreeId(heap) ==
  LET n == Cardinality(DOMAIN heap) + 1
  IN CHOOSE i \in 1..n : i \notin DOMAIN heap /\ \A j \in 1..(i - 1) : j \in DOMAIN heap

\* Bytes the decoder asks of its stream in one read callback (the size of
\* StreamArchive::_buffer); larger than every payload of the model.
BlockSize == 8

\* The parts of a stream's logical path: the tail's single name, or the
\* tail's multi-volume part list.
Parts(s) == s.src[Len(s.src)].v

\* A stream object as constructed: MultiVolumeStreamBase in state Idle.
NewStream(cls, src, par) ==
  [cls |-> cls, src |-> src, par |-> par, part |-> 0, pos |-> 0, end |-> FALSE]

SetS(c, sid, s) == [c EXCEPT !.S = (sid :> s) @@ @]

SetA(c, aid, a) == [c EXCEPT !.A = (aid :> a) @@ @]

(***************************************************************************)
(* Archive decoder wrapper (Archive / StreamArchive)                       *)
(***************************************************************************)

\* Archive::current_entryname: empty before the first header and at EOF.
current_entryname(a) ==
  IF a.idx >= 1 /\ a.idx <= Len(a.hdrs) THEN a.hdrs[a.idx] ELSE ""

\* Archive::skip_to_next_header: position at the next header; false at
\* end-of-archive.
skip_to_next_header(c, aid) ==
  LET a == c.A[aid]
  IN IF a.idx < Len(a.hdrs)
     THEN Ok(SetA(c, aid, [a EXCEPT !.idx = a.idx + 1, !.off = 0, !.ready = TRUE]), TRUE)
     ELSE Ok(SetA(c, aid, [a EXCEPT !.idx = Len(a.hdrs) + 1, !.off = 0,
                                    !.ready = FALSE, !.eof = TRUE]), FALSE)

\* Archive::read_current: bytes of the current entry's payload from the
\* current offset; faults when no header has been reached.
read_current(c, aid, n) ==
  LET a == c.A[aid]
      payload == NameBytes(current_entryname(a))
      upto == Min(a.off + n, Len(payload))
  IN IF a.idx < 1 \/ a.idx > Len(a.hdrs)
     THEN Res(c, <<>>, "fault", c.S[a.sid].src)
     ELSE Ok(SetA(c, aid, [a EXCEPT !.off = upto, !.ready = FALSE]),
             SubSeq(payload, a.off + 1, upto))

\* Archive::skip_data: skip the rest of the current entry's payload.
skip_data(c, aid) ==
  LET a == c.A[aid]
  IN SetA(c, aid, [a EXCEPT !.off = Len(NameBytes(current_entryname(a))), !.ready = FALSE])

\* Index of the first header after position from that is called name, or 0.
FindHeader(hdrs, from, name) ==
  LET js == {j \in (from + 1)..Len(hdrs) : hdrs[j] = name}
  IN IF js = {} THEN 0 ELSE CHOOSE j \in js : \A i \in js : j <= i

RECURSIVE stream_rewind(_, _)
RECURSIVE skip_to_entry(_, _, _)
RECURSIVE archive_rewind(_, _)
RECURSIVE stream_read(_, _, _, _)
RECURSIVE ReadAll(_, _, _)
RECURSIVE open_single_part(_, _, _)

\* EntryPayloadStream::close_single_part / SystemFileStream::close_single_part
close_single_part(c, sid) ==
  LET s == c.S[sid]
  IN IF s.cls = "eps"
     THEN IF current_entryname(c.A[s.par]) = "" THEN c ELSE skip_data(c, s.par)
     ELSE c

\* read_from_single_part that returns the bytes of a host file without
\* moving the position in the file.
read_from_single_part_keeps_position(c, sid, n) ==
  LET s == c.S[sid]
  IN IF s.cls = "eps"
     THEN IF n = 0 THEN Ok(c, <<>>) ELSE read_current(c, s.par, n)
     ELSE LET bytes == HostBytes(Parts(s)[s.part])
              upto == Min(s.pos + n, Len(bytes))
          IN Ok(c, SubSeq(bytes, s.pos + 1, upto))

\* EntryPayloadStream::read_from_single_part / SystemFileStream::read_from_single_part
read_from_single_part(c, sid, n) ==
  LET s == c.S[sid]
  IN IF s.cls = "eps"
     THEN IF n = 0 THEN Ok(c, <<>>) ELSE read_current(c, s.par, n)
     ELSE LET bytes == HostBytes(Parts(s)[s.part])
              upto == Min(s.pos + n, Len(bytes))
          IN Ok(SetS(c, sid, [s EXCEPT !.pos = upto]), SubSeq(bytes, s.pos + 1, upto))

\* open_single_part that opens the first part whatever part is asked for.
open_single_part_first(c, sid, k) ==
  LET s == c.S[sid]
      single_part == pathhierarchy_select_single_part(s.src, 0)
      name == Parts(s)[1]
  IN IF s.cls = "eps"
     THEN Let(skip_to_entry(c, s.par, name), LAMBDA r :
          IF r.exc # "none" THEN r
          ELSE IF ~r.ret THEN Res(r.c, FALSE, "fault", single_part)
          ELSE Ok(SetS(r.c, sid, [r.c.S[sid] EXCEPT !.part = k, !.pos = 0]), TRUE))
     ELSE IF HostKind(name) # "file"
          THEN Res(c, FALSE, "fault", single_part)
          ELSE Ok(SetS(c, sid, [s EXCEPT !.part = k, !.pos = 0]), TRUE)

\* open_single_part whose fault names the whole logical path of the stream
\* instead of the part that failed to open.
open_single_part_names_stream(c, sid, k) ==
  LET s == c.S[sid]
      name == Parts(s)[k]
  IN IF s.cls = "eps"
     THEN Let(skip_to_entry(c, s.par, name), LAMBDA r :
          IF r.exc # "none" THEN r
          ELSE IF ~r.ret THEN Res(r.c, FALSE, "fault", s.src)
          ELSE Ok(SetS(r.c, sid, [r.c.S[sid] EXCEPT !.part = k, !.pos = 0]), TRUE))
     ELSE IF HostKind(name) # "file"
          THEN Res(c, FALSE, "fault", s.src)
          ELSE Ok(SetS(c, sid, [s EXCEPT !.part = k, !.pos = 0]), TRUE)

\* EntryPayloadStream::open_single_part / SystemFileStream::open_single_part
\* for part k (1-based): an EntryFaultError naming the part when the parent
\* archive has no such entry, or the host file cannot be opened.
open_single_part(c, sid, k) ==
  LET s == c.S[sid]
      single_part == pathhierarchy_select_single_part(s.src, k - 1)
      name == Parts(s)[k]
  IN IF s.cls = "eps"
     THEN Let(skip_to_entry(c, s.par, name), LAMBDA r :
          IF r.exc # "none" THEN r
          ELSE IF ~r.ret THEN Res(r.c, FALSE, "fault", single_part)
          ELSE Ok(SetS(r.c, sid, [r.c.S[sid] EXCEPT !.part = k, !.pos = 0]), TRUE))
     ELSE IF HostKind(name) # "file"
          THEN Res(c, FALSE, "fault", single_part)
          ELSE Ok(SetS(c, sid, [s EXCEPT !.part = k, !.pos = 0]), TRUE)

\* MultiVolumeStreamBase::read: fills up to n bytes, opening part 0 from
\* Idle and crossing into the next part on a short read; Exhausted (and
\* at_end) once the last part has returned no more bytes.
stream_read(c, sid, n, acc) ==
  LET s == c.S[sid]
      last == Len(Parts(s))
  IN IF Len(acc) = n THEN Ok(c, acc)
     ELSE IF s.part > last THEN Ok(SetS(c, sid, [s EXCEPT !.end = TRUE]), acc)
     ELSE IF s.part = 0
     THEN Let(open_single_part(c, sid, 1), LAMBDA r :
          IF r.exc # "none" THEN r ELSE stream_read(r.c, sid, n, acc))
     ELSE Let(read_from_single_part(c, sid, n - Len(acc)), LAMBDA r :
          IF r.exc # "none" THEN r
          ELSE IF r.ret # <<>> THEN stream_read(r.c, sid, n, acc \o r.ret)
          ELSE Let(close_single_part(r.c, sid), LAMBDA c1 :
               IF s.part < last
               THEN Let(open_single_part(SetS(c1, sid, [c1.S[sid] EXCEPT !.part = 0, !.pos = 0]),
                                         sid, s.part + 1), LAMBDA o :
                    IF o.exc # "none" THEN o ELSE stream_read(o.c, sid, n, acc))
               ELSE Ok(SetS(c1, sid, [c1.S[sid] EXCEPT !.part = last + 1,
                                                      !.pos = 0, !.end = TRUE]), acc)))

\* rewind that leaves the end-of-stream mark as it is.
stream_rewind_keeps_end(c, sid) ==
  LET s == c.S[sid]
  IN Let(IF s.part >= 1 /\ s.part <= Len(Parts(s)) THEN close_single_part(c, sid) ELSE c,
         LAMBDA c1 :
     Let(SetS(c1, sid, [c1.S[sid] EXCEPT !.part = 0, !.pos = 0]), LAMBDA c2 :
     IF s.cls = "eps"
     THEN Let(skip_to_entry(c2, s.par, Parts(s)[1]), LAMBDA r :
          IF r.exc # "none" THEN r
          ELSE IF ~r.ret
          THEN Res(r.c, FALSE, "fault", pathhierarchy_select_single_part(s.src, 0))
          ELSE Ok(r.c, TRUE))
     ELSE Ok(c2, TRUE)))

\* MultiVolumeStreamBase::rewind (close the open part, back to Idle), and
\* for an entry-payload stream EntryPayloadStream::rewind: the parent is
\* then positioned at the first part's entry.
stream_rewind(c, sid) ==
  LET s == c.S[sid]
  IN Let(IF s.part >= 1 /\ s.part <= Len(Parts(s)) THEN close_single_part(c, sid) ELSE c,
         LAMBDA c1 :
     Let(SetS(c1, sid, [c1.S[sid] EXCEPT !.part = 0, !.pos = 0, !.end = FALSE]), LAMBDA c2 :
     IF s.cls = "eps"
     THEN Let(skip_to_entry(c2, s.par, Parts(s)[1]), LAMBDA r :
          IF r.exc # "none" THEN r
          ELSE IF ~r.ret
          THEN Res(r.c, FALSE, "fault", pathhierarchy_select_single_part(s.src, 0))
          ELSE Ok(r.c, TRUE))
     ELSE Ok(c2, TRUE)))

\* What the decoder pulls through StreamArchive::read_callback_bridge when
\* it opens: the stream from its current position to its end, block by
\* block.  An exception of the stream becomes a fatal decoder error.
ReadAll(c, sid, acc) ==
  Let(stream_read(c, sid, BlockSize, <<>>), LAMBDA r :
  IF r.exc # "none" THEN Res(r.c, acc, "fault", c.S[sid].src)
  ELSE IF r.ret = <<>> THEN Ok(r.c, acc)
  ELSE ReadAll(r.c, sid, acc \o r.ret))

\* StreamArchive::rewind: rewind the stream, then Archive::rewind reopens
\* the decoder on it.
archive_rewind(c, aid) ==
  LET sid == c.A[aid].sid
  IN Let(stream_rewind(c, sid), LAMBDA r :
     IF r.exc # "none" THEN r
     ELSE Let(ReadAll(r.c, sid, <<>>), LAMBDA d :
          IF d.exc # "none" THEN d
          ELSE IF ~Decode(d.ret).ok THEN Res(d.c, FALSE, "fault", c.S[sid].src)
          ELSE Ok(SetA(d.c, aid, [d.c.A[aid] EXCEPT !.hdrs = Decode(d.ret).hdrs, !.idx = 0,
                                                  !.off = 0, !.ready = FALSE, !.eof = FALSE]),
                  TRUE)))

\* skip_to_entry that only searches forward and never rewinds.
skip_to_entry_forward_only(c, aid, name) ==
  LET a == c.A[aid]
      fwd == FindHeader(a.hdrs, a.idx, name)
  IN IF current_entryname(a) = name /\ a.ready THEN Ok(c, TRUE)
     ELSE IF fwd # 0
     THEN Ok(SetA(c, aid, [a EXCEPT !.idx = fwd, !.off = 0, !.ready = TRUE, !.eof = FALSE]), TRUE)
     ELSE Ok(SetA(c, aid, [a EXCEPT !.idx = Len(a.hdrs) + 1, !.ready = FALSE,
                                    !.eof = TRUE]), FALSE)

\* Archive::skip_to_entry: already there with the payload unread, or found
\* by advancing; otherwise one rewind and a search from the first header.
skip_to_entry(c, aid, name) ==
  LET a == c.A[aid]
      fwd == FindHeader(a.hdrs, a.idx, name)
  IN IF current_entryname(a) = name /\ a.ready THEN Ok(c, TRUE)
     ELSE IF fwd # 0
     THEN Ok(SetA(c, aid, [a EXCEPT !.idx = fwd, !.off = 0, !.ready = TRUE, !.eof = FALSE]), TRUE)
     ELSE Let(archive_rewind(c, aid), LAMBDA r :
          LET b == r.c.A[aid]
              again == FindHeader(b.hdrs, 0, name)
          IN IF r.exc # "none" THEN r
             ELSE IF again # 0
             THEN Ok(SetA(r.c, aid, [b EXCEPT !.idx = again, !.off = 0, !.ready = TRUE]), TRUE)
             ELSE Ok(SetA(r.c, aid, [b EXCEPT !.idx = Len(b.hdrs) + 1, !.ready = FALSE,
                                             !.eof = TRUE]), FALSE))

\* A StreamArchive that opens on any bytes: what is no archive reads as an
\* archive without headers, and no fault is raised.
StreamArchive_accept_any(c, sid) ==
  IF sid = 0 THEN Res(c, 0, "invalid", <<>>)
  ELSE Let(ReadAll(c, sid, <<>>), LAMBDA d :
       LET aid == FreeId(d.c.A)
       IN Ok(SetA(d.c, aid, [sid |-> sid,
                             hdrs |-> IF d.exc = "none" /\ Decode(d.ret).ok
                                      THEN Decode(d.ret).hdrs ELSE <<>>,
                             idx |-> 0, off |-> 0, ready |-> FALSE, eof |-> FALSE]), aid))

\* StreamArchive::StreamArchive + open_archive: a null stream is an invalid
\* argument; otherwise the decoder opens on the stream and the new object
\* is returned, or an EntryFaultError when the bytes are no archive.
StreamArchive(c, sid) ==
  IF sid = 0 THEN Res(c, 0, "invalid", <<>>)
  ELSE Let(ReadAll(c, sid, <<>>), LAMBDA d :
       LET aid == FreeId(d.c.A)
       IN IF d.exc # "none" THEN Res(d.c, 0, "fault", c.S[sid].src)
          ELSE IF ~Decode(d.ret).ok THEN Res(d.c, 0, "fault", c.S[sid].src)
          ELSE Ok(SetA(d.c, aid, [sid |-> sid, hdrs |-> Decode(d.ret).hdrs, idx |-> 0,
                                  off |-> 0, ready |-> FALSE, eof |-> FALSE]), aid))

\* StreamArchive::parent_archive: the parent of the entry-payload stream the
\* archive reads, nullptr over any other stream.
parent_archive(c, aid) ==
  LET s == c.S[c.A[aid].sid]
  IN IF s.cls = "eps" THEN s.par ELSE 0

(***************************************************************************)
(* ArchiveStackCursor                                                      *)
(***************************************************************************)

\* ArchiveStackCursor::ArchiveStackCursor
ArchiveStackCursor == [stack |-> <<>>, cur |-> 0, S |-> <<>>, A |-> <<>>,
                       opts |-> [descend_archives |-> TRUE]]

\* Release of shared_ptr objects: a stream lives while a stack slot or a
\* live archive holds it, an archive while the cursor or a live stream does.
RECURSIVE Reach(_, _, _)
Reach(c, ss, as) ==
  LET ss2 == ss \cup {c.A[a].sid : a \in as}
      as2 == as \cup ({c.S[s].par : s \in ss2} \ {0})
  IN IF ss2 = ss /\ as2 = as THEN [ss |-> ss, as |-> as] ELSE Reach(c, ss2, as2)

Release(c0) ==
  Let(c0, LAMBDA c :
  Let(Reach(c, {c.stack[i] : i \in 1..Len(c.stack)} \ {0}, {c.cur} \ {0}), LAMBDA live :
  [c EXCEPT !.S = [i \in live.ss |-> c.S[i]], !.A = [i \in live.as |-> c.A[i]]]))

\* What is left of the heap when every shared_ptr whose count has come to
\* zero has been destroyed: a stream is counted by the stack slots and the
\* archives that hold it, an archive by the cursor and the entry-payload
\* streams that hold it.  Objects that hold each other would stay.
RECURSIVE DestroyUnreferenced(_)
DestroyUnreferenced(c) ==
  LET ss == DOMAIN c.S \cap (({c.stack[i] : i \in 1..Len(c.stack)} \ {0})
                             \cup {c.A[a].sid : a \in DOMAIN c.A})
      as == DOMAIN c.A \cap (({c.cur} \cup {c.S[x].par : x \in DOMAIN c.S}) \ {0})
  IN IF ss = DOMAIN c.S /\ as = DOMAIN c.A THEN c
     ELSE DestroyUnreferenced([c EXCEPT !.S = [i \in ss |-> c.S[i]],
                                        !.A = [i \in as |-> c.A[i]]])

\* ArchiveStackCursor::~ArchiveStackCursor: the members stream_stack and
\* _current_archive are destroyed.
destroy_cursor(c) == DestroyUnreferenced([c EXCEPT !.stack = <<>>, !.cur = 0])

\* ArchiveStackCursor::configure
configure(c, options) == [c EXCEPT !.opts = options]

\* ArchiveStackCursor::reset
reset(c) == ArchiveStackCursor

\* current_entry_hierarchy without the append of the current entry's name.
current_entry_hierarchy_source_only(c) ==
  IF c.stack = <<>> \/ c.stack[1] = 0 THEN <<>>
  ELSE IF c.cur # 0 THEN c.S[c.A[c.cur].sid].src
       ELSE c.S[c.stack[1]].src

\* ArchiveStackCursor::current_entry_hierarchy
current_entry_hierarchy(c) ==
  IF c.stack = <<>> \/ c.stack[1] = 0 THEN <<>>
  ELSE IF c.cur # 0
       THEN LET a == c.A[c.cur]
                path == c.S[a.sid].src
            IN IF current_entryname(a) # "" THEN append_single(path, current_entryname(a))
               ELSE path
       ELSE c.S[c.stack[1]].src

\* ArchiveStackCursor::create_stream: the root stream for a one-component
\* hierarchy (SystemFileStream rejects an empty or nested root), an
\* entry-payload stream on the current archive otherwise (EntryPayloadStream
\* rejects a null parent).
create_stream(c, hierarchy) ==
  LET sid == FreeId(c.S)
  IN IF Len(hierarchy) = 1
     THEN IF hierarchy[1].k \notin {"s", "m"} THEN Res(c, 0, "invalid", <<>>)
          ELSE Ok(SetS(c, sid, NewStream("file", hierarchy, 0)), sid)
     ELSE IF c.cur = 0 THEN Res(c, 0, "invalid", <<>>)
          ELSE Ok(SetS(c, sid, NewStream("eps", hierarchy, c.cur)), sid)

\* ArchiveStackCursor::depth: 0 for a new cursor and with the root stream
\* alone, one more with every slot above it.
cursor_depth(c) == IF c.stack = <<>> THEN 0 ELSE Len(c.stack) - 1

\* ArchiveStackCursor::has_stream: the top slot holds a stream.
has_stream(c) == c.stack # <<>> /\ c.stack[Len(c.stack)] # 0

\* descend that pushes a slot still holding the stream it descended into.
descend_pushes_stream(c) ==
  IF c.stack = <<>> THEN Res(c, FALSE, "logic", <<>>)
  ELSE LET stream == c.stack[Len(c.stack)]
       IN Let(IF c.cur # 0 /\ stream # 0 /\ ~c.A[c.cur].ready
              THEN stream_rewind(c, stream) ELSE Ok(c, TRUE), LAMBDA rw :
          IF rw.exc # "none" THEN Res(Release(rw.c), FALSE, rw.exc, rw.fh)
          ELSE Let(StreamArchive(rw.c, stream), LAMBDA ar :
               IF ar.exc # "none" THEN Res(Release(ar.c), FALSE, ar.exc, ar.fh)
               ELSE Ok([ar.c EXCEPT !.cur = ar.ret, !.stack = Append(c.stack, stream)], TRUE)))

\* descend that swallows the failure to open the archive and reports that
\* it did not descend.
descend_swallow(c) ==
  IF c.stack = <<>> THEN Res(c, FALSE, "logic", <<>>)
  ELSE LET stream == c.stack[Len(c.stack)]
       IN Let(IF c.cur # 0 /\ stream # 0 /\ ~c.A[c.cur].ready
              THEN stream_rewind(c, stream) ELSE Ok(c, TRUE), LAMBDA rw :
          IF rw.exc # "none" THEN Ok(Release(rw.c), FALSE)
          ELSE Let(StreamArchive(rw.c, stream), LAMBDA ar :
               IF ar.exc # "none" THEN Ok(Release(ar.c), FALSE)
               ELSE Ok([ar.c EXCEPT !.cur = ar.ret, !.stack = Append(c.stack, 0)], TRUE)))

\* ArchiveStackCursor::descend
descend(c) ==
  IF c.stack = <<>> THEN Res(c, FALSE, "logic", <<>>)
  ELSE LET stream == c.stack[Len(c.stack)]
       IN Let(IF c.cur # 0 /\ stream # 0 /\ ~c.A[c.cur].ready
              THEN stream_rewind(c, stream) ELSE Ok(c, TRUE), LAMBDA rw :
          IF rw.exc # "none" THEN Res(Release(rw.c), FALSE, rw.exc, rw.fh)
          ELSE Let(StreamArchive(rw.c, stream), LAMBDA ar :
               IF ar.exc # "none" THEN Res(Release(ar.c), FALSE, ar.exc, ar.fh)
               ELSE Ok([ar.c EXCEPT !.cur = ar.ret, !.stack = Append(c.stack, 0)], TRUE)))

\* ascend that leaves the parent archive rewound to before its first
\* header instead of where it stood.
ascend_rewinds_parent(c) ==
  IF Len(c.stack) <= 0 THEN Ok(c, FALSE)
  ELSE Let(Release([c EXCEPT !.stack = SubSeq(c.stack, 1, Len(c.stack) - 1),
                             !.cur = IF c.cur # 0 THEN parent_archive(c, c.cur) ELSE 0]),
           LAMBDA c1 :
       IF c1.cur = 0 THEN Ok(c1, TRUE)
       ELSE Ok(SetA(c1, c1.cur, [c1.A[c1.cur] EXCEPT !.idx = 0, !.off = 0, !.ready = FALSE,
                                                     !.eof = FALSE]), TRUE))

\* ascend that drops the parent archive: the cursor is left with no current
\* archive.
ascend_drop_parent(c) ==
  IF Len(c.stack) <= 0 THEN Ok(c, FALSE)
  ELSE Ok(Release([c EXCEPT !.stack = SubSeq(c.stack, 1, Len(c.stack) - 1), !.cur = 0]), TRUE)

\* ascend that reports success and leaves the cursor where it is.
ascend_stays(c) ==
  IF Len(c.stack) <= 0 THEN Ok(c, FALSE) ELSE Ok(c, TRUE)

\* ascend that moves the current archive to the parent and leaves the
\* slot on the stack.
ascend_keeps_slot(c) ==
  IF Len(c.stack) <= 0 THEN Ok(c, FALSE)
  ELSE Ok(Release([c EXCEPT !.cur = IF c.cur # 0 THEN parent_archive(c, c.cur) ELSE 0]), TRUE)

\* ArchiveStackCursor::ascend
ascend(c) ==
  IF Len(c.stack) <= 0 THEN Ok(c, FALSE)
  ELSE Ok(Release([c EXCEPT !.stack = SubSeq(c.stack, 1, Len(c.stack) - 1),
                            !.cur = IF c.cur # 0 THEN parent_archive(c, c.cur) ELSE 0]), TRUE)

\* The loop of ArchiveStackCursor::next that passes over headers with an
\* empty name.
RECURSIVE SkipEmptyNames(_)
SkipEmptyNames(c) ==
  Let(skip_to_next_header(c, c.cur), LAMBDA r :
  IF ~r.ret THEN r
  ELSE IF current_entryname(r.c.A[c.cur]) # "" THEN r
  ELSE SkipEmptyNames(r.c))

\* ArchiveStackCursor::next
next(c) ==
  IF c.cur = 0 THEN Ok(c, FALSE)
  ELSE Let(SkipEmptyNames(c), LAMBDA r :
       IF ~r.ret THEN Ok(r.c, FALSE)
       ELSE Let(create_stream(r.c, current_entry_hierarchy(r.c)), LAMBDA s :
            IF s.exc # "none" THEN Res(Release(s.c), FALSE, s.exc, s.fh)
            ELSE Ok(Release([s.c EXCEPT !.stack[Len(c.stack)] = s.ret]), TRUE)))

\* std::vector::resize of the stream stack up to n slots (new slots null).
Resize(stack, n) ==
  IF Len(stack) >= n THEN SubSeq(stack, 1, n)
  ELSE stack \o [i \in 1..(n - Len(stack)) |-> 0]

\* The ascend() loop of synchronize_to_hierarchy that shrinks the stack.
RECURSIVE ShrinkTo(_, _)
ShrinkTo(c, size) ==
  IF Len(c.stack) > size THEN Let(ascend(c), LAMBDA r : ShrinkTo(r.c, size)) ELSE c

\* The body of the for loop of ArchiveStackCursor::synchronize_to_hierarchy
\* from component depth on.
RECURSIVE SyncFrom(_, _, _)
SyncFrom(c, target, depth) ==
  IF depth >= Len(target) THEN Ok(c, TRUE)
  ELSE LET prefix == pathhierarchy_prefix_until(target, depth)
           stream == c.stack[depth + 1]
       IN IF stream # 0 /\ hierarchies_equal(c.S[stream].src, prefix)
          THEN SyncFrom(c, target, depth + 1)
          ELSE Let(ShrinkTo(c, depth + 1), LAMBDA c1 :
               Let(IF Len(c1.stack) <= depth
                   THEN [c1 EXCEPT !.stack = Resize(c1.stack, depth + 1)] ELSE c1, LAMBDA c2 :
               Let(create_stream(c2, prefix), LAMBDA s :
               IF s.exc # "none" THEN Res(Release(s.c), FALSE, s.exc, s.fh)
               ELSE Let(Release([s.c EXCEPT !.stack[Len(c2.stack)] = s.ret]), LAMBDA c3 :
                    Let(stream_rewind(c3, s.ret), LAMBDA rw :
                    IF rw.exc # "none" THEN Res(Release(rw.c), FALSE, rw.exc, rw.fh)
                    ELSE IF depth = Len(target) - 1 THEN Ok(rw.c, TRUE)
                    ELSE Let(descend(rw.c), LAMBDA d :
                         IF d.exc # "none" THEN d
                         ELSE SyncFrom(d.c, target, depth + 1)))))))

\* synchronize_to_hierarchy that rewinds the stream of the target level
\* before it returns, reused or not.
synchronize_to_hierarchy_rewinds(c, target_hierarchy) ==
  IF target_hierarchy = <<>> THEN Res(c, FALSE, "fault", <<>>)
  ELSE Let(IF Len(c.stack) < Len(target_hierarchy)
           THEN [c EXCEPT !.stack = Resize(c.stack, Len(target_hierarchy))]
           ELSE c, LAMBDA c1 :
       Let(SyncFrom(c1, target_hierarchy, 0), LAMBDA r :
       IF r.exc # "none" THEN r
       ELSE Let(stream_rewind(r.c, r.c.stack[Len(target_hierarchy)]), LAMBDA rw :
            IF rw.exc # "none" THEN Res(Release(rw.c), FALSE, rw.exc, rw.fh)
            ELSE Ok(rw.c, TRUE))))

\* synchronize_to_hierarchy that raises std::invalid_argument for an empty
\* target instead of the fault.
synchronize_to_hierarchy_invalid_argument(c, target_hierarchy) ==
  IF target_hierarchy = <<>> THEN Res(c, FALSE, "invalid", <<>>)
  ELSE Let(IF Len(c.stack) < Len(target_hierarchy)
           THEN [c EXCEPT !.stack = Resize(c.stack, Len(target_hierarchy))]
           ELSE c, LAMBDA c1 : SyncFrom(c1, target_hierarchy, 0))

\* ArchiveStackCursor::synchronize_to_hierarchy
synchronize_to_hierarchy(c, target_hierarchy) ==
  IF target_hierarchy = <<>> THEN Res(c, FALSE, "fault", <<>>)
  ELSE Let(IF Len(c.stack) < Len(target_hierarchy)
           THEN [c EXCEPT !.stack = Resize(c.stack, Len(target_hierarchy))]
           ELSE c, LAMBDA c1 : SyncFrom(c1, target_hierarchy, 0))

\* ArchiveStackCursor::read.  Reading through a null top slot dereferences
\* a null pointer (exc "ub").
read(c, len) ==
  IF len = 0 THEN Ok(c, <<>>)
  ELSE IF c.stack = <<>> THEN Res(c, -1, "fault", <<>>)
  ELSE IF c.stack[Len(c.stack)] = 0 THEN Res(c, -1, "ub", <<>>)
  ELSE stream_read(c, c.stack[Len(c.stack)], len, <<>>)

(***************************************************************************)
(* Multi-volume manager: pending groups in marking order.                  *)
(***************************************************************************)

\* The first pending group under parent with this base name and ordering,
\* or 0.
GroupIndex(mv, parent, base, ord) ==
  LET js == {j \in 1..Len(mv) : mv[j].parent = parent /\ mv[j].base = base /\ mv[j].ord = ord}
  IN IF js = {} THEN 0 ELSE CHOOSE j \in js : \A i \in js : j <= i

\* mark_entry_as_multi_volume that joins the first group of the parent with
\* the same base name, whatever its ordering.
mark_entry_as_multi_volume_any_ordering(mv, entry_hierarchy, base, ord) ==
  IF entry_hierarchy = <<>> THEN mv
  ELSE IF entry_hierarchy[Len(entry_hierarchy)].k # "s" THEN mv
  ELSE LET parent == ParentOf(entry_hierarchy)
           js == {j \in 1..Len(mv) : mv[j].parent = parent /\ mv[j].base = base}
       IN IF js = {}
          THEN Append(mv, [parent |-> parent, base |-> base, ord |-> ord,
                           parts |-> <<entry_hierarchy>>])
          ELSE [mv EXCEPT ![CHOOSE j \in js : \A i \in js : j <= i].parts =
                            Append(@, entry_hierarchy)]

\* MultiVolumeManager::mark_entry_as_multi_volume: the entry joins the group
\* of its parent hierarchy with the same base name and ordering, or starts
\* one; an empty hierarchy is ignored.
mark_entry_as_multi_volume(mv, entry_hierarchy, base, ord) ==
  IF entry_hierarchy = <<>> THEN mv
  ELSE IF entry_hierarchy[Len(entry_hierarchy)].k # "s" THEN mv
  ELSE LET parent == ParentOf(entry_hierarchy)
           j == GroupIndex(mv, parent, base, ord)
       IN IF j = 0
          THEN Append(mv, [parent |-> parent, base |-> base, ord |-> ord,
                           parts |-> <<entry_hierarchy>>])
          ELSE [mv EXCEPT ![j].parts = Append(@, entry_hierarchy)]

\* pop_multi_volume_group that hands out the group of the parent that was
\* marked last.
pop_multi_volume_group_last_marked(mv, parent) ==
  LET js == {j \in 1..Len(mv) : mv[j].parent = parent}
      j == CHOOSE k \in js : \A i \in js : k >= i
  IN IF js = {} THEN [found |-> FALSE, mv |-> mv, parts |-> <<>>, ord |-> "-"]
     ELSE [found |-> TRUE, mv |-> SubSeq(mv, 1, j - 1) \o SubSeq(mv, j + 1, Len(mv)),
           parts |-> mv[j].parts, ord |-> mv[j].ord]

\* MultiVolumeManager::pop_multi_volume_group: the first-marked group under
\* parent, removed.
pop_multi_volume_group(mv, parent) ==
  LET js == {j \in 1..Len(mv) : mv[j].parent = parent}
      j == CHOOSE k \in js : \A i \in js : k <= i
  IN IF js = {} THEN [found |-> FALSE, mv |-> mv, parts |-> <<>>, ord |-> "-"]
     ELSE [found |-> TRUE, mv |-> SubSeq(mv, 1, j - 1) \o SubSeq(mv, j + 1, Len(mv)),
           parts |-> mv[j].parts, ord |-> mv[j].ord]

\* A merge that hands back the only hierarchy of a one-element list.
merge_multi_volume_sources_one_is_itself(parts, ord) ==
  IF Len(parts) = 1 THEN parts[1]
  ELSE Append(ParentOf(parts[1]),
              MultiVolume([i \in 1..Len(parts) |-> parts[i][Len(parts[i])].v[1]], ord))

\* The aggregated hierarchy of a group: the common parent followed by one
\* multi-volume component listing the parts' tails.
merge_multi_volume_sources(parts, ord) ==
  Append(ParentOf(parts[1]),
         MultiVolume([i \in 1..Len(parts) |-> parts[i][Len(parts[i])].v[1]], ord))

(***************************************************************************)
(* Archive stack orchestrator                                              *)
(***************************************************************************)

\* ArchiveStackOrchestrator::ArchiveStackOrchestrator
ArchiveStackOrchestrator == [c |-> ArchiveStackCursor, mv |-> <<>>]

\* Result of an engine step: kind "entry" (h is yielded), "done" (the root
\* is complete) or "throw" (exc unwinds); fs lists the hierarchies of the
\* faults dispatched to the callback on the way.
ARes(o, kind, h, exc, fs) == [o |-> o, kind |-> kind, h |-> h, exc |-> exc, fs |-> fs]

\* ArchiveStackOrchestrator::depth: the number of open decoders.
RECURSIVE ChainLen(_, _)
ChainLen(c, aid) == IF aid = 0 THEN 0 ELSE 1 + ChainLen(c, parent_archive(c, aid))

depth(o) == ChainLen(o.c, o.c.cur)

\* Archive::skip_to_eof: pass over every remaining header.
skip_to_eof(c, aid) ==
  SetA(c, aid, [c.A[aid] EXCEPT !.idx = Len(c.A[aid].hdrs) + 1, !.off = 0,
                                !.ready = FALSE, !.eof = TRUE])

\* The hierarchy under which groups of the current level are pending: the
\* source of the current archive, or empty at the root level.
current_parent_hierarchy(c) == IF c.cur = 0 THEN <<>> ELSE c.S[c.A[c.cur].sid].src

\* TRUE when the top stream is an aggregated multi-volume stream inside the
\* current archive (its parts have all been yielded already).
AtMultiVolumeStream(c) ==
  /\ c.cur # 0
  /\ c.stack # <<>>
  /\ c.stack[Len(c.stack)] # 0
  /\ LET src == c.S[c.stack[Len(c.stack)]].src IN src[Len(src)].k = "m"

\* ArchiveStackOrchestrator::advance: the engine step of one iterator
\* increment.
RECURSIVE advance(_, _, _)
advance(o, allow_descend, fs) ==
  LET c == o.c
  IN IF allow_descend
     THEN Let(descend(c), LAMBDA d :
          IF d.exc = "fault" THEN advance([o EXCEPT !.c = d.c], FALSE, Append(fs, d.fh))
          ELSE IF d.exc # "none" THEN ARes([o EXCEPT !.c = d.c], "throw", <<>>, d.exc, fs)
          ELSE advance([o EXCEPT !.c = d.c], FALSE, fs))
     ELSE Let(pop_multi_volume_group(o.mv, current_parent_hierarchy(c)), LAMBDA g :
          IF c.cur = 0
          THEN IF ~g.found THEN ARes(o, "done", <<>>, "none", fs)
               ELSE Let(merge_multi_volume_sources(g.parts, g.ord), LAMBDA merged :
                    Let(synchronize_to_hierarchy(c, merged), LAMBDA s0 :
                    IF s0.exc = "fault"
                    THEN advance([c |-> s0.c, mv |-> g.mv], FALSE, Append(fs, merged))
                    ELSE IF s0.exc # "none"
                    THEN ARes([c |-> s0.c, mv |-> g.mv], "throw", <<>>, s0.exc, fs)
                    ELSE ARes([c |-> s0.c, mv |-> g.mv], "entry", merged, "none", fs)))
          ELSE Let(next(IF AtMultiVolumeStream(c) THEN skip_to_eof(c, c.cur) ELSE c), LAMBDA n :
               IF n.exc = "fault" THEN advance([o EXCEPT !.c = n.c], FALSE, Append(fs, n.fh))
               ELSE IF n.exc # "none" THEN ARes([o EXCEPT !.c = n.c], "throw", <<>>, n.exc, fs)
               ELSE IF n.ret
               THEN ARes([o EXCEPT !.c = n.c], "entry", current_entry_hierarchy(n.c), "none", fs)
               ELSE IF g.found
               THEN Let(merge_multi_volume_sources(g.parts, g.ord), LAMBDA merged :
                    Let(synchronize_to_hierarchy(n.c, merged), LAMBDA s :
                    IF s.exc = "fault"
                    THEN advance([c |-> IF s.c.cur # 0 THEN skip_to_eof(s.c, s.c.cur) ELSE s.c,
                                  mv |-> g.mv], FALSE, Append(fs, merged))
                    ELSE IF s.exc # "none"
                    THEN ARes([c |-> s.c, mv |-> g.mv], "throw", <<>>, s.exc, fs)
                    ELSE ARes([c |-> s.c, mv |-> g.mv], "entry", merged, "none", fs)))
               ELSE Let(ascend(n.c), LAMBDA a : advance([o EXCEPT !.c = a.c], FALSE, fs))))

\* ArchiveStackOrchestrator::open_root_hierarchy: a fresh cursor
\* synchronized to the root.
open_root_hierarchy(o, h) ==
  Let(synchronize_to_hierarchy(ArchiveStackCursor, h), LAMBDA s :
  ARes([o EXCEPT !.c = s.c], IF s.exc = "none" THEN "entry" ELSE "throw", h, s.exc, <<>>))

\* ArchiveStackOrchestrator::synchronize_to_hierarchy -> bool: faults are
\* caught and dispatched, the return value tells success.
orchestrator_synchronize(o, h) ==
  Let(synchronize_to_hierarchy(o.c, h), LAMBDA s :
  IF s.exc = "none" THEN [o |-> [o EXCEPT !.c = s.c], ok |-> TRUE, exc |-> "none", fs |-> <<>>]
  ELSE IF s.exc = "fault"
  THEN [o |-> [o EXCEPT !.c = s.c], ok |-> FALSE, exc |-> "none", fs |-> <<h>>]
  ELSE [o |-> [o EXCEPT !.c = s.c], ok |-> FALSE, exc |-> s.exc, fs |-> <<>>])

\* ArchiveStackOrchestrator::read_head: delegates to the cursor.
read_head(o, n) ==
  Let(read(o.c, n), LAMBDA r :
  [o |-> [o EXCEPT !.c = r.c], ret |-> r.ret, exc |-> r.exc, fh |-> r.fh])

(***************************************************************************)
(* Entry                                                                   *)
(***************************************************************************)

\* Entry::depth: hierarchy length minus one, 0 for an empty hierarchy.
entry_depth(h) == IF h = <<>> THEN 0 ELSE Len(h) - 1

\* No Entry (a null pointer to an Entry).
NoEntry == [h |-> <<>>, isdir |-> FALSE, descent_enabled |-> FALSE, depth |-> 0,
            managed |-> FALSE, orch |-> <<>>]

\* Entry::create(hierarchy, orchestrator, default_descent): managed tells
\* whether the traverser's orchestrator was passed; orch is the private
\* orchestrator (<<>> until one is made).
Entry(h, isdir, managed, default_descent) ==
  [h |-> h, isdir |-> isdir, descent_enabled |-> default_descent, depth |-> entry_depth(h),
   managed |-> managed, orch |-> <<>>]

\* Entry's copy constructor: the copy is detached from the traverser and
\* has no orchestrator of its own yet.
EntryCopy(e) == [e EXCEPT !.managed = FALSE, !.orch = <<>>]

\* Entry::read.  Reading disables descent.  A managed entry whose
\* traverser orchestrator has an open decoder reads through it; otherwise
\* the entry makes its private orchestrator on first use and synchronizes
\* it to the stored hierarchy.  The result names the entry, the traverser's
\* orchestrator, the bytes, whether the call failed (the C++ return value
\* is then -1) and the faults dispatched.
entry_read(e, o, n) ==
  LET e1 == [e EXCEPT !.descent_enabled = FALSE]
      viaTraverser == e.managed /\ depth(o) > 0
      Done(r, ro, eo) ==
        [e |-> eo, o |-> ro, ret |-> IF r.exc = "none" THEN r.ret ELSE <<>>,
         fail |-> r.exc # "none",
         exc |-> IF r.exc \in {"none", "fault"} THEN "none" ELSE r.exc,
         fs |-> IF r.exc = "fault" THEN <<r.fh>> ELSE <<>>]
  IN IF viaTraverser
     THEN Let(read_head(o, n), LAMBDA r : Done(r, r.o, e1))
     ELSE IF e.orch # <<>>
     THEN Let(read_head(e.orch[1], n), LAMBDA r : Done(r, o, [e1 EXCEPT !.orch = <<r.o>>]))
     ELSE Let(orchestrator_synchronize(ArchiveStackOrchestrator, e.h), LAMBDA sy :
          IF ~sy.ok
          THEN [e |-> e1, o |-> o, ret |-> <<>>, fail |-> TRUE, exc |-> sy.exc,
                fs |-> Append(sy.fs, e.h)]
          ELSE Let(read_head(sy.o, n), LAMBDA r : Done(r, o, [e1 EXCEPT !.orch = <<r.o>>])))

\* Entry::set_descent: legal on a traverser-managed entry only; on any
\* other entry a fault naming the operation is dispatched and the flag
\* stays.
entry_set_descent(e, enabled) ==
  IF ~e.managed
  THEN [e |-> e, fs |-> <<[h |-> e.h, msg |-> "set_descent"]>>]
  ELSE [e |-> [e EXCEPT !.descent_enabled = enabled], fs |-> <<>>]

\* Entry::set_multi_volume_group: a traverser-managed entry is registered
\* with the manager mv of its orchestrator; on any other entry a fault
\* naming the operation is dispatched and no manager is told.
entry_set_multi_volume_group(e, mv, base, ord) ==
  IF ~e.managed
  THEN [mv |-> mv, fs |-> <<[h |-> e.h, msg |-> "set_multi_volume_group"]>>]
  ELSE [mv |-> mark_entry_as_multi_volume(mv, e.h, base, ord), fs |-> <<>>]

(***************************************************************************)
(* Traverser and its iterator                                              *)
(***************************************************************************)

\* The root lists a Traverser is constructed with: an archive file, a
\* directory, two files, a split archive given as one multi-volume root,
\* a multi-volume root whose second part p3 is missing, followed by a
\* file, and a missing file followed by a directory.
RootLists ==
  {<<make_single_path("R")>>,
   <<make_single_path("D")>>,
   <<make_single_path("D/g"), make_single_path("D/s/h")>>,
   <<<<MultiVolume(<<"p1", "p2">>, "G")>>>>,
   <<<<MultiVolume(<<"p1", "p3">>, "G")>>, make_single_path("D/g")>>,
   <<make_single_path("p3"), make_single_path("D")>>}

\* Options whose descent is off when default-constructed.
TraverserOptions_shallow == [descend_archives |-> FALSE]

\* TraverserOptions as default-constructed: descent is on by default.
TraverserOptions == [descend_archives |-> TRUE]

\* Traverser::begin before the first entry is fetched: no root entered,
\* no directory entries pending, the options as default-constructed.
IteratorInit(paths) ==
  [paths |-> paths, ri |-> 0, dirq |-> <<>>, o |-> ArchiveStackOrchestrator,
   options |-> TraverserOptions]

\* Traverser(paths, options).begin().
begin(paths, options) == [IteratorInit(paths) EXCEPT !.options = options]

\* The entry e is the directory a root names.
is_root_directory(iter, e) == e.isdir /\ iter.ri >= 1 /\ e.h = iter.paths[iter.ri]

\* Result of fetching: kind "entry", "end" or "throw".
IRes(iter, kind, e, exc, fs) == [it |-> iter, kind |-> kind, e |-> e, exc |-> exc, fs |-> fs]

\* The next entry from the pending directory entries or the next root: a
\* directory is yielded as it is, a file is opened as a root of the
\* orchestrator and yielded at depth 0.
RECURSIVE fetch(_, _)
fetch(iter, fs) ==
  LET p == Head(iter.dirq)
      root == iter.paths[iter.ri + 1]
      h == IF iter.dirq # <<>> THEN make_single_path(p) ELSE root
      it1 == IF iter.dirq # <<>> THEN [iter EXCEPT !.dirq = Tail(iter.dirq)]
             ELSE [iter EXCEPT !.ri = iter.ri + 1]
  IN IF iter.dirq = <<>> /\ iter.ri >= Len(iter.paths)
     THEN IRes([iter EXCEPT !.o = ArchiveStackOrchestrator], "end", NoEntry, "none", fs)
     ELSE IF iter.dirq = <<>> /\ root[1].k = "s" /\ HostKind(root[1].v[1]) = "dir"
     THEN fetch([iter EXCEPT !.ri = iter.ri + 1, !.dirq = <<root[1].v[1]>>], fs)
     ELSE IF iter.dirq # <<>> /\ HostKind(p) = "dir"
     THEN IRes(it1, "entry", Entry(h, TRUE, TRUE, iter.options.descend_archives), "none", fs)
     ELSE Let(open_root_hierarchy(iter.o, h), LAMBDA r :
          IF r.exc = "fault" THEN fetch([it1 EXCEPT !.o = r.o], Append(fs, h))
          ELSE IF r.exc # "none" THEN IRes([it1 EXCEPT !.o = r.o], "throw", NoEntry, r.exc, fs)
          ELSE IRes([it1 EXCEPT !.o = r.o], "entry",
                    Entry(h, FALSE, TRUE, iter.options.descend_archives), "none", fs))

\* An increment that lets the fault of a failed step unwind instead of
\* dispatching it.
increment_rethrow(iter, e) ==
  IF e.isdir
  THEN fetch(IF e.descent_enabled \/ is_root_directory(iter, e)
             THEN [iter EXCEPT !.dirq = DirList(e.h[1].v[1]) \o iter.dirq] ELSE iter, <<>>)
  ELSE Let(advance(iter.o, e.descent_enabled, <<>>), LAMBDA a :
       LET itera == [iter EXCEPT !.o = a.o]
       IN IF a.fs # <<>> THEN IRes(itera, "throw", NoEntry, "fault", <<>>)
          ELSE IF a.kind = "entry"
          THEN IRes(itera, "entry", Entry(a.h, FALSE, TRUE, iter.options.descend_archives),
                    "none", a.fs)
          ELSE IF a.kind = "throw" THEN IRes(itera, "throw", NoEntry, a.exc, a.fs)
          ELSE fetch(itera, a.fs))

\* Traverser::Iterator::operator++ past the entry e: the contents of a
\* directory are queued ahead of its siblings when descent is enabled or the
\* directory is the one a root names; an archive or file entry runs the orchestrator's advance, and the next
\* directory entry or root is fetched once the orchestrator is done.
increment(iter, e) ==
  IF e.isdir
  THEN fetch(IF e.descent_enabled \/ is_root_directory(iter, e)
             THEN [iter EXCEPT !.dirq = DirList(e.h[1].v[1]) \o iter.dirq] ELSE iter, <<>>)
  ELSE Let(advance(iter.o, e.descent_enabled, <<>>), LAMBDA a :
       LET itera == [iter EXCEPT !.o = a.o]
       IN IF a.kind = "entry"
          THEN IRes(itera, "entry", Entry(a.h, FALSE, TRUE, iter.options.descend_archives),
                    "none", a.fs)
          ELSE IF a.kind = "throw" THEN IRes(itera, "throw", NoEntry, a.exc, a.fs)
          ELSE fetch(itera, a.fs))

(***************************************************************************)
(* The Python binding's entry handle and iterator wrapper                  *)
(***************************************************************************)

\* Python objects the binding is handed: a str, or a list of objects.
PyStr(s) == [t |-> "str", s |-> s, items |-> <<>>]
PyList(items) == [t |-> "list", s |-> "", items |-> items]

\* The result of a conversion: the value, or the exception it raised.
Converted(ret) == [exc |-> "none", ret |-> ret]
Raised(exc) == [exc |-> exc, ret |-> <<>>]

\* PyTraverser::py_to_path_entry: a str is a single name, a list of str a
\* multi-volume part list in Natural ordering, any other list a nested
\* group (whose nodes the model does not keep); an empty list is an
\* invalid argument.
py_to_path_entry(obj) ==
  IF obj.t = "str" THEN Converted(Single(obj.s))
  ELSE IF Len(obj.items) = 0 THEN Raised("invalid")
  ELSE IF \A i \in 1..Len(obj.items) : obj.items[i].t = "str"
  THEN Converted(MultiVolume([i \in 1..Len(obj.items) |-> obj.items[i].s], "N"))
  ELSE Converted([k |-> "n", v |-> <<>>, o |-> "-"])

\* py_to_path_hierarchy that makes of a str a part list with one part.
py_to_path_hierarchy_as_part_list(obj) ==
  IF obj.t = "str" THEN Converted(<<MultiVolume(<<obj.s>>, "N")>>)
  ELSE IF Len(obj.items) = 0 THEN Raised("invalid")
  ELSE LET cs == [i \in 1..Len(obj.items) |-> py_to_path_entry(obj.items[i])]
       IN IF \E i \in 1..Len(cs) : cs[i].exc # "none" THEN Raised("invalid")
          ELSE Converted([i \in 1..Len(cs) |-> cs[i].ret])

\* PyTraverser::py_to_path_hierarchy: a str is a single-component
\* hierarchy, a list one component per item; an empty list is an invalid
\* argument, and so is a component that does not convert.
py_to_path_hierarchy(obj) ==
  IF obj.t = "str" THEN Converted(make_single_path(obj.s))
  ELSE IF Len(obj.items) = 0 THEN Raised("invalid")
  ELSE LET cs == [i \in 1..Len(obj.items) |-> py_to_path_entry(obj.items[i])]
       IN IF \E i \in 1..Len(cs) : cs[i].exc # "none" THEN Raised("invalid")
          ELSE Converted([i \in 1..Len(cs) |-> cs[i].ret])

\* normalize_paths that takes an empty list of paths and an empty
\* hierarchy as they are.
normalize_paths_lenient(paths_obj) ==
  IF paths_obj.t = "str" THEN Converted(<<make_single_path(paths_obj.s)>>)
  ELSE LET hs == [i \in 1..Len(paths_obj.items) |->
                    IF paths_obj.items[i].t = "list" /\ Len(paths_obj.items[i].items) = 0
                    THEN Converted(<<>>)
                    ELSE py_to_path_hierarchy(paths_obj.items[i])]
       IN IF \E i \in 1..Len(hs) : hs[i].exc # "none" THEN Raised("invalid")
          ELSE Converted([i \in 1..Len(hs) |-> hs[i].ret])

\* PyTraverser::normalize_paths: a str is one root, a list one root per
\* item; an empty list is an invalid argument, and so is a root that does
\* not convert.
normalize_paths(paths_obj) ==
  IF paths_obj.t = "str" THEN Converted(<<make_single_path(paths_obj.s)>>)
  ELSE IF Len(paths_obj.items) = 0 THEN Raised("invalid")
  ELSE LET hs == [i \in 1..Len(paths_obj.items) |-> py_to_path_hierarchy(paths_obj.items[i])]
       IN IF \E i \in 1..Len(hs) : hs[i].exc # "none" THEN Raised("invalid")
          ELSE Converted([i \in 1..Len(hs) |-> hs[i].ret])

\* PyTraverser::build_options: the default-constructed options, with
\* descend_archives replaced when the caller passed one (<<>> is None).
build_options(descend_archives) ==
  IF descend_archives = <<>> THEN TraverserOptions
  ELSE [TraverserOptions EXCEPT !.descend_archives = descend_archives[1]]

\* A handle whose cached depth is the length of the hierarchy.
PyEntry_depth_as_length(e) ==
  [h |-> e.h, depth |-> Len(e.h), live |-> TRUE, descent_enabled |-> e.descent_enabled,
   det |-> <<>>]

\* PyEntry::PyEntry + bind_live_entry: the attributes are cached, the live
\* reference points at the iterator's Entry; det holds the detached Entry
\* once ensure_detached_entry has made it.
PyEntry(e) ==
  [h |-> e.h, depth |-> e.depth, live |-> TRUE, descent_enabled |-> e.descent_enabled,
   det |-> <<>>]

\* No handle.
NoPyEntry == [h |-> <<>>, depth |-> 0, live |-> FALSE, descent_enabled |-> FALSE, det |-> <<>>]

\* A release that leaves the live reference in place.
release_live_entry_keep(pe) == pe

\* PyEntry::release_live_entry
release_live_entry(pe) == [pe EXCEPT !.live = FALSE]

\* A detached Entry that is bound to the traverser's orchestrator instead
\* of to the private one.
ensure_detached_entry_shared(pe) ==
  IF pe.det # <<>> THEN [pe |-> pe, fs |-> <<>>]
  ELSE Let(orchestrator_synchronize(ArchiveStackOrchestrator, pe.h), LAMBDA sy :
       IF ~sy.ok THEN [pe |-> pe, fs |-> sy.fs]
       ELSE [pe |-> [pe EXCEPT !.det = <<[Entry(pe.h, FALSE, TRUE, pe.descent_enabled)
                                           EXCEPT !.orch = <<sy.o>>]>>],
             fs |-> <<>>])

\* PyEntry::ensure_detached_entry: a private orchestrator synchronized to
\* the cached hierarchy, and a detached Entry over it; a failed
\* synchronization leaves no detached Entry (the caller raises ValueError).
ensure_detached_entry(pe) ==
  IF pe.det # <<>> THEN [pe |-> pe, fs |-> <<>>]
  ELSE Let(orchestrator_synchronize(ArchiveStackOrchestrator, pe.h), LAMBDA sy :
       IF ~sy.ok THEN [pe |-> pe, fs |-> sy.fs]
       ELSE [pe |-> [pe EXCEPT !.det = <<[Entry(pe.h, FALSE, FALSE, pe.descent_enabled)
                                           EXCEPT !.orch = <<sy.o>>]>>],
             fs |-> <<>>])

\* Bytes asked per call by the read-to-end loops.
ChunkSize == 2

\* A read-to-end loop that stops after its first chunk.
read_entry_fully_first_chunk(e, o, acc, fs) ==
  Let(entry_read(e, o, ChunkSize), LAMBDA r :
  IF r.fail THEN [e |-> r.e, o |-> r.o, ret |-> -1, bytes |-> acc, fs |-> fs \o r.fs]
  ELSE [e |-> r.e, o |-> r.o, ret |-> 0, bytes |-> acc \o r.ret, fs |-> fs \o r.fs])

\* The loop of PyEntry::read(None) / read_entry_fully: read until a call
\* returns no bytes (or fails).
RECURSIVE read_entry_fully(_, _, _, _)
read_entry_fully(e, o, acc, fs) ==
  Let(entry_read(e, o, ChunkSize), LAMBDA r :
  IF r.fail THEN [e |-> r.e, o |-> r.o, ret |-> -1, bytes |-> acc, fs |-> fs \o r.fs]
  ELSE IF r.ret = <<>> THEN [e |-> r.e, o |-> r.o, ret |-> 0, bytes |-> acc, fs |-> fs \o r.fs]
  ELSE read_entry_fully(r.e, r.o, acc \o r.ret, fs \o r.fs))

(***************************************************************************)
(* State                                                                   *)
(***************************************************************************)

VARIABLES
  it,          \* the Traverser iterator: root index, pending directory entries, orchestrator
  entry,       \* the iterator's current Entry (NoEntry before begin and at end)
  started,     \* PyTraverser::_iterator_initialized
  ended,       \* it == traverser.end()
  last_entry,  \* PyTraverser::_last_entry, the handle of the latest yield
  prev_entry,  \* the handle released by the latest advance, still held by the user
  saved,       \* copies of entries held by the user
  yielded,     \* history: the entries yielded so far
  faults,      \* history: the faults dispatched to the callback
  passes,      \* history: completed read-to-end passes over detached entries, each with
               \* whether the traversal had ended by then
  thrown,      \* the exception that unwound the latest call, or "none"
  used,        \* how many of each user operation have been made
  slots,       \* the process-wide slots: root-stream factory and fault callback
  threads,     \* the caller's threads: each with its position in a call that replaces
               \* or reads a slot, or with the Traverser it constructed
  cursor       \* an ArchiveStackCursor driven directly, with its latest operation

vars == <<it, entry, started, ended, last_entry, prev_entry, saved, yielded, faults,
          passes, thrown, used, slots, threads, cursor>>

\* The process-wide slots and a caller's threads.
SlotNames == {"factory", "callback"}
NThreads == 2
Threads == 1..NThreads

\* What a slot can hold: nothing, a callable that was installed, or, in the
\* middle of an assignment, neither.
EmptyValue == [k |-> "empty", id |-> 0]
TornValue == [k |-> "torn", id |-> 0]
Callable(n) == [k |-> "fn", id |-> n]

\* A slot after static initialisation: empty, its mutex free.
SlotInit == [value |-> EmptyValue, lock |-> 0, installed |-> {EmptyValue}]

\* A thread that has called nothing yet.
ThreadInit == [pc |-> "idle", slot |-> "factory", arg |-> EmptyValue, from |-> "factory",
               snapshot |-> EmptyValue, running |-> EmptyValue, ret |-> "idle",
               sets |-> 0, calls |-> 0]

\* A cursor that has been constructed and not used.
CursorInit == [c |-> ArchiveStackCursor, op |-> "none", ret |-> FALSE, exc |-> "none",
               before |-> ArchiveStackCursor]

\* The part of the state that a single traverser's calls leave alone.
InitProcess ==
  /\ slots = [s \in SlotNames |-> SlotInit]
  /\ threads = [t \in Threads |-> ThreadInit]
  /\ cursor = CursorInit

\* Bounds on the user's operations in one traversal.
MaxSetDescent == 2
MaxMark == 2
MaxLiveRead == 1
MaxCopies == 1
MaxDetachedRead == 2

\* Sizes a caller asks of Entry::read.
ReadSizes == {1}

\* Group base names and orderings a caller passes to set_multi_volume_group,
\* and the entry names the caller takes for parts of a split archive.
BaseNames == {"g"}
Orderings == {"N", "G"}
PartNames == {"p1", "p2", "D/g", "D/s/u"}

\* The entry names whose entries a caller keeps copies of.
SavedNames == {"a", "t", "D/s/u"}

\* The faults fs, stamped with the number of entries yielded before them.
Stamp(fs, n) == [i \in 1..Len(fs) |-> [n |-> n, h |-> fs[i]]]

Init ==
  /\ it \in {IteratorInit(paths) : paths \in RootLists}
  /\ entry = NoEntry
  /\ started = FALSE
  /\ ended = FALSE
  /\ last_entry = NoPyEntry
  /\ prev_entry = NoPyEntry
  /\ saved = <<>>
  /\ yielded = <<>>
  /\ faults = <<>>
  /\ passes = {}
  /\ thrown = "none"
  /\ used = [sd |-> 0, mk |-> 0, rd |-> 0, cp |-> 0, dr |-> 0]
  /\ InitProcess

(***************************************************************************)
(* Actions                                                                 *)
(***************************************************************************)

\* The history record of a newly yielded entry; fs are the hierarchies of
\* the faults dispatched by the advance that yielded it.
Yield(e, fs) ==
  [h |-> e.h, depth |-> e.depth, isdir |-> e.isdir, desc |-> e.descent_enabled, fs |-> fs,
   rd |-> FALSE, mk |-> FALSE]

\* next that ends the iteration when the step dispatched a fault.
PyTraverser_next_stop_on_fault ==
  /\ ~ended
  /\ \E r \in {IF ~started THEN fetch(it, <<>>) ELSE increment(it, entry)} :
     LET stop == r.kind # "entry" \/ r.fs # <<>>
     IN /\ it' = r.it
        /\ entry' = IF stop THEN NoEntry ELSE r.e
        /\ ended' = stop
        /\ last_entry' = IF ~stop THEN PyEntry(r.e) ELSE NoPyEntry
        /\ prev_entry' = IF started THEN release_live_entry(last_entry) ELSE prev_entry
        /\ yielded' = IF ~stop THEN Append(yielded, Yield(r.e, r.fs)) ELSE yielded
        /\ faults' = faults \o Stamp(r.fs, Len(yielded))
        /\ thrown' = r.exc
  /\ started' = TRUE
  /\ UNCHANGED <<saved, passes, used>>
  /\ UNCHANGED <<slots, threads, cursor>>

\* PyTraverser::next: the first call initializes the iterator, every later
\* call releases the previous handle's live reference and increments.
PyTraverser_next ==
  /\ ~ended
  /\ \E r \in {IF ~started THEN fetch(it, <<>>) ELSE increment(it, entry)} :
        /\ it' = r.it
        /\ entry' = r.e
        /\ ended' = (r.kind # "entry")
        /\ last_entry' = IF r.kind = "entry" THEN PyEntry(r.e) ELSE NoPyEntry
        /\ prev_entry' = IF started THEN release_live_entry(last_entry) ELSE prev_entry
        /\ yielded' = IF r.kind = "entry" THEN Append(yielded, Yield(r.e, r.fs)) ELSE yielded
        /\ faults' = faults \o Stamp(r.fs, Len(yielded))
        /\ thrown' = r.exc
  /\ started' = TRUE
  /\ UNCHANGED <<saved, passes, used>>
  /\ UNCHANGED <<slots, threads, cursor>>

\* set_descent that updates the handle's cached flag only, not the live
\* Entry.
SetDescent_handle_only(enabled) ==
  /\ last_entry.live
  /\ used.sd < MaxSetDescent
  /\ entry.descent_enabled # enabled
  /\ last_entry' = [last_entry EXCEPT !.descent_enabled = enabled]
  /\ yielded' = [yielded EXCEPT ![Len(yielded)].desc = enabled]
  /\ used' = [used EXCEPT !.sd = @ + 1]
  /\ UNCHANGED <<slots, threads, cursor>>
  /\ thrown' = "none"
  /\ UNCHANGED <<it, entry, started, ended, prev_entry, saved, faults, passes>>

\* PyEntry::set_descent on the live handle.
SetDescent(enabled) ==
  /\ last_entry.live
  /\ used.sd < MaxSetDescent
  /\ entry.descent_enabled # enabled
  /\ entry' = [entry EXCEPT !.descent_enabled = enabled]
  /\ last_entry' = [last_entry EXCEPT !.descent_enabled = enabled]
  /\ yielded' = [yielded EXCEPT ![Len(yielded)].desc = enabled]
  /\ used' = [used EXCEPT !.sd = @ + 1]
  /\ UNCHANGED <<slots, threads, cursor>>
  /\ thrown' = "none"
  /\ UNCHANGED <<it, started, ended, prev_entry, saved, faults, passes>>

\* set_multi_volume_group that hands the manager the hierarchy of the
\* entry's parent instead of the entry's own.
SetMultiVolumeGroup_parent_hierarchy(base, ord) ==
  /\ last_entry.live
  /\ used.mk < MaxMark
  /\ ~entry.isdir
  /\ ~yielded[Len(yielded)].mk
  /\ entry.h[Len(entry.h)].k = "s"
  /\ entry.h[Len(entry.h)].v[1] \in PartNames
  /\ it' = [it EXCEPT !.o.mv = mark_entry_as_multi_volume(it.o.mv, ParentOf(entry.h), base, ord)]
  /\ yielded' = [yielded EXCEPT ![Len(yielded)].mk = TRUE]
  /\ used' = [used EXCEPT !.mk = @ + 1]
  /\ UNCHANGED <<slots, threads, cursor>>
  /\ thrown' = "none"
  /\ UNCHANGED <<entry, started, ended, last_entry, prev_entry, saved, faults, passes>>

\* set_multi_volume_group that records the mark on the handle only: the
\* manager is not told.
SetMultiVolumeGroup_handle_only(base, ord) ==
  /\ last_entry.live
  /\ used.mk < MaxMark
  /\ ~entry.isdir
  /\ ~yielded[Len(yielded)].mk
  /\ entry.h[Len(entry.h)].k = "s"
  /\ entry.h[Len(entry.h)].v[1] \in PartNames
  /\ yielded' = [yielded EXCEPT ![Len(yielded)].mk = TRUE]
  /\ used' = [used EXCEPT !.mk = @ + 1]
  /\ UNCHANGED <<slots, threads, cursor>>
  /\ thrown' = "none"
  /\ UNCHANGED <<it, entry, started, ended, last_entry, prev_entry, saved, faults, passes>>

\* PyEntry::set_multi_volume_group on the live handle.
SetMultiVolumeGroup(base, ord) ==
  /\ last_entry.live
  /\ used.mk < MaxMark
  /\ ~entry.isdir
  /\ ~yielded[Len(yielded)].mk
  /\ entry.h[Len(entry.h)].k = "s"
  /\ entry.h[Len(entry.h)].v[1] \in PartNames
  /\ it' = [it EXCEPT !.o.mv = mark_entry_as_multi_volume(it.o.mv, entry.h, base, ord)]
  /\ yielded' = [yielded EXCEPT ![Len(yielded)].mk = TRUE]
  /\ used' = [used EXCEPT !.mk = @ + 1]
  /\ UNCHANGED <<slots, threads, cursor>>
  /\ thrown' = "none"
  /\ UNCHANGED <<entry, started, ended, last_entry, prev_entry, saved, faults, passes>>

\* A read that works on a copy of the live Entry: the bytes come back, the
\* live Entry and the traverser's orchestrator are left as they were.
ReadLive_on_copy(n) ==
  /\ last_entry.live
  /\ used.rd < MaxLiveRead
  /\ ~entry.isdir
  /\ \E r \in {entry_read(EntryCopy(entry), it.o, n)} :
        /\ yielded' = [yielded EXCEPT ![Len(yielded)].rd = (~r.fail /\ r.ret # <<>>)]
        /\ faults' = faults \o Stamp(r.fs, Len(yielded))
        /\ thrown' = r.exc
  /\ used' = [used EXCEPT !.rd = @ + 1]
  /\ UNCHANGED <<slots, threads, cursor>>
  /\ UNCHANGED <<it, entry, started, ended, last_entry, prev_entry, saved, passes>>

\* PyEntry::read(n) on the live handle: Entry::read of the live Entry.
ReadLive(n) ==
  /\ last_entry.live
  /\ used.rd < MaxLiveRead
  /\ ~entry.isdir
  /\ \E r \in {entry_read(entry, it.o, n)} :
        /\ it' = [it EXCEPT !.o = r.o]
        /\ entry' = r.e
        /\ yielded' = [yielded EXCEPT ![Len(yielded)].desc = r.e.descent_enabled,
                                      ![Len(yielded)].rd = (~r.fail /\ r.ret # <<>>)]
        /\ faults' = faults \o Stamp(r.fs, Len(yielded))
        /\ thrown' = r.exc
  /\ used' = [used EXCEPT !.rd = @ + 1]
  /\ UNCHANGED <<slots, threads, cursor>>
  /\ UNCHANGED <<started, ended, last_entry, prev_entry, saved, passes>>

\* A copy that keeps the traverser's orchestrator of the copied Entry.
CopyEntry_keeps_orchestrator ==
  /\ last_entry.live
  /\ used.cp < MaxCopies
  /\ ~entry.isdir
  /\ entry.h[Len(entry.h)].v[1] \in SavedNames
  /\ saved' = Append(saved, entry)
  /\ used' = [used EXCEPT !.cp = @ + 1]
  /\ UNCHANGED <<slots, threads, cursor>>
  /\ thrown' = "none"
  /\ UNCHANGED <<it, entry, started, ended, last_entry, prev_entry, yielded, faults, passes>>

\* The user copies the live Entry.
CopyEntry ==
  /\ last_entry.live
  /\ used.cp < MaxCopies
  /\ ~entry.isdir
  /\ entry.h[Len(entry.h)].v[1] \in SavedNames
  /\ saved' = Append(saved, EntryCopy(entry))
  /\ used' = [used EXCEPT !.cp = @ + 1]
  /\ UNCHANGED <<slots, threads, cursor>>
  /\ thrown' = "none"
  /\ UNCHANGED <<it, entry, started, ended, last_entry, prev_entry, yielded, faults, passes>>

\* The user reads a held copy to its end, either the copy itself or a
\* fresh copy of it that then replaces it.
ReadDetached(i, viaCopy) ==
  /\ i \in 1..Len(saved)
  /\ used.dr < MaxDetachedRead
  /\ \E e0 \in {IF viaCopy THEN EntryCopy(saved[i]) ELSE saved[i]} :
     \E r \in {read_entry_fully(e0, it.o, <<>>, <<>>)} :
        /\ saved' = [saved EXCEPT ![i] = r.e]
        /\ it' = [it EXCEPT !.o = r.o]
        /\ passes' = passes \cup {[h |-> e0.h, bytes |-> r.bytes, fresh |-> (e0.orch = <<>>),
                                   ok |-> (r.ret = 0), fin |-> ended]}
        /\ faults' = faults \o Stamp(r.fs, Len(yielded))
  /\ used' = [used EXCEPT !.dr = @ + 1]
  /\ UNCHANGED <<slots, threads, cursor>>
  /\ thrown' = "none"
  /\ UNCHANGED <<entry, started, ended, last_entry, prev_entry, yielded>>

\* PyEntry::set_descent through the handle of the previous yield.
StaleSetDescent(enabled) ==
  /\ prev_entry.h # <<>>
  /\ used.dr < MaxDetachedRead
  /\ IF ~prev_entry.live
     THEN /\ thrown' = "value_error"
          /\ UNCHANGED <<entry, prev_entry, yielded>>
     ELSE /\ thrown' = "none"
          /\ entry' = [entry EXCEPT !.descent_enabled = enabled]
          /\ prev_entry' = [prev_entry EXCEPT !.descent_enabled = enabled]
          /\ yielded' = IF ended THEN yielded
                        ELSE [yielded EXCEPT ![Len(yielded)].desc = enabled]
  /\ used' = [used EXCEPT !.dr = @ + 1]
  /\ UNCHANGED <<slots, threads, cursor>>
  /\ UNCHANGED <<it, started, ended, last_entry, saved, faults, passes>>

\* PyEntry::read(None) through the handle of the previous yield:
\* entry_for_read picks the live Entry or the detached one.
StaleRead ==
  /\ prev_entry.h # <<>>
  /\ used.dr < MaxDetachedRead
  /\ \E en \in {ensure_detached_entry(prev_entry)} :
     LET viaLive == prev_entry.live
     IN IF ~viaLive /\ en.pe.det = <<>>
        THEN /\ thrown' = "value_error"
             /\ faults' = faults \o Stamp(en.fs, Len(yielded))
             /\ UNCHANGED <<it, entry, prev_entry, passes>>
        ELSE \E e0 \in {IF viaLive THEN entry ELSE en.pe.det[1]} :
             \E r \in {read_entry_fully(e0, it.o, <<>>, <<>>)} :
             /\ thrown' = IF r.ret = -1 THEN "value_error" ELSE "none"
             /\ faults' = faults \o Stamp(r.fs, Len(yielded))
             /\ it' = [it EXCEPT !.o = r.o]
             /\ entry' = IF viaLive THEN r.e ELSE entry
             /\ prev_entry' = IF viaLive THEN prev_entry ELSE [en.pe EXCEPT !.det = <<r.e>>]
             /\ passes' = passes \cup {[h |-> e0.h, bytes |-> r.bytes,
                                        fresh |-> (~viaLive /\ prev_entry.det = <<>>),
                                        ok |-> (r.ret = 0), fin |-> ended]}
  /\ used' = [used EXCEPT !.dr = @ + 1]
  /\ UNCHANGED <<slots, threads, cursor>>
  /\ UNCHANGED <<started, ended, last_entry, saved, yielded>>

\* The hierarchies a caller makes entries of by hand: none, a missing host
\* file, an archive file, an entry its archive does not have, a nested
\* archive.
CreatedHierarchies ==
  {<<>>, make_single_path("p3"), make_single_path("R"),
   <<Single("R"), Single("q")>>, <<Single("R"), Single("a")>>}

\* The faults fs, which carry a message, stamped with the number of entries
\* yielded before them.
StampMessage(fs, n) == [i \in 1..Len(fs) |-> [n |-> n, h |-> fs[i].h, msg |-> fs[i].msg]]

\* The user makes an Entry of a hierarchy, before the traversal begins:
\* Entry::create(h, nullptr, true).
CreateEntry(h) ==
  /\ ~started
  /\ used.cp < MaxCopies
  /\ saved' = Append(saved, Entry(h, FALSE, FALSE, TRUE))
  /\ used' = [used EXCEPT !.cp = @ + 1]
  /\ UNCHANGED <<slots, threads, cursor>>
  /\ thrown' = "none"
  /\ UNCHANGED <<it, entry, started, ended, last_entry, prev_entry, yielded, faults, passes>>

\* Entry::set_descent on a held Entry.
EntrySetDescent(i, enabled) ==
  /\ i \in 1..Len(saved)
  /\ used.dr < MaxDetachedRead
  /\ \E r \in {entry_set_descent(saved[i], enabled)} :
        /\ saved' = [saved EXCEPT ![i] = r.e]
        /\ faults' = faults \o StampMessage(r.fs, Len(yielded))
  /\ used' = [used EXCEPT !.dr = @ + 1]
  /\ UNCHANGED <<slots, threads, cursor>>
  /\ thrown' = "none"
  /\ UNCHANGED <<it, entry, started, ended, last_entry, prev_entry, yielded, passes>>

\* Entry::set_multi_volume_group on a held Entry.
EntrySetMultiVolumeGroup(i, base, ord) ==
  /\ i \in 1..Len(saved)
  /\ used.dr < MaxDetachedRead
  /\ \E r \in {entry_set_multi_volume_group(saved[i], it.o.mv, base, ord)} :
        /\ it' = [it EXCEPT !.o.mv = r.mv]
        /\ faults' = faults \o StampMessage(r.fs, Len(yielded))
  /\ used' = [used EXCEPT !.dr = @ + 1]
  /\ UNCHANGED <<slots, threads, cursor>>
  /\ thrown' = "none"
  /\ UNCHANGED <<entry, started, ended, last_entry, prev_entry, saved, yielded, passes>>

\* Entry::read(buf, n) on a held Entry; the pass records whether the call
\* returned a count (ok) or -1.
EntryRead(i, n) ==
  /\ i \in 1..Len(saved)
  /\ used.dr < MaxDetachedRead
  /\ \E r \in {entry_read(saved[i], it.o, n)} :
        /\ saved' = [saved EXCEPT ![i] = r.e]
        /\ it' = [it EXCEPT !.o = r.o]
        /\ passes' = passes \cup {[h |-> saved[i].h, bytes |-> r.ret,
                                   fresh |-> (saved[i].orch = <<>>), ok |-> ~r.fail,
                                   fin |-> ended]}
        /\ faults' = faults \o Stamp(r.fs, Len(yielded))
        /\ thrown' = r.exc
  /\ used' = [used EXCEPT !.dr = @ + 1]
  /\ UNCHANGED <<slots, threads, cursor>>
  /\ UNCHANGED <<entry, started, ended, last_entry, prev_entry, yielded>>

\* A traversal whose caller steers descent and reads the live entry.
Next ==
  \/ PyTraverser_next
  \/ \E enabled \in BOOLEAN : SetDescent(enabled)
  \/ \E n \in ReadSizes : ReadLive(n)

Spec == Init /\ [][Next]_vars

\* A traversal whose caller marks parts of split archives.
NextMultiVolume ==
  \/ PyTraverser_next
  \/ \E enabled \in BOOLEAN : SetDescent(enabled)
  \/ \E base \in BaseNames, ord \in Orderings : SetMultiVolumeGroup(base, ord)

SpecMultiVolume == Init /\ [][NextMultiVolume]_vars

\* A traversal whose caller keeps copies and earlier handles and uses them.
NextDetached ==
  \/ PyTraverser_next
  \/ CopyEntry
  \/ \E i \in 1..MaxCopies, viaCopy \in BOOLEAN : ReadDetached(i, viaCopy)
  \/ \E enabled \in BOOLEAN : StaleSetDescent(enabled)
  \/ StaleRead

SpecDetached == Init /\ [][NextDetached]_vars

\* A traversal whose caller passes descend_archives (or leaves it out) and
\* switches descent on single entries.
InitOptions ==
  /\ it \in {begin(paths, build_options(d)) :
               paths \in RootLists, d \in {<<>>, <<TRUE>>, <<FALSE>>}}
  /\ entry = NoEntry
  /\ started = FALSE
  /\ ended = FALSE
  /\ last_entry = NoPyEntry
  /\ prev_entry = NoPyEntry
  /\ saved = <<>>
  /\ yielded = <<>>
  /\ faults = <<>>
  /\ passes = {}
  /\ thrown = "none"
  /\ used = [sd |-> 0, mk |-> 0, rd |-> 0, cp |-> 0, dr |-> 0]
  /\ InitProcess

NextOptions ==
  \/ PyTraverser_next
  \/ \E enabled \in BOOLEAN : SetDescent(enabled)

SpecOptions == InitOptions /\ [][NextOptions]_vars

\* A traversal whose caller marks parts, and makes and copies entries and
\* calls them directly.
NextEntry ==
  \/ PyTraverser_next
  \/ \E base \in BaseNames, ord \in Orderings : SetMultiVolumeGroup(base, ord)
  \/ CopyEntry
  \/ CreateEntry(make_single_path("p3"))
  \/ \E i \in 1..MaxCopies, enabled \in BOOLEAN : EntrySetDescent(i, enabled)
  \/ \E i \in 1..MaxCopies, base \in BaseNames, ord \in Orderings :
        EntrySetMultiVolumeGroup(i, base, ord)

\* The traversals during which entries are held and called: a multi-volume
\* root with a missing part followed by an archive file, and two files.
EntryRootLists ==
  {<<<<MultiVolume(<<"p1", "p3">>, "G")>>, make_single_path("D/g")>>,
   <<make_single_path("D/g"), make_single_path("D/s/h")>>}

InitEntry ==
  /\ it \in {IteratorInit(paths) : paths \in EntryRootLists}
  /\ entry = NoEntry
  /\ started = FALSE
  /\ ended = FALSE
  /\ last_entry = NoPyEntry
  /\ prev_entry = NoPyEntry
  /\ saved = <<>>
  /\ yielded = <<>>
  /\ faults = <<>>
  /\ passes = {}
  /\ thrown = "none"
  /\ used = [sd |-> 0, mk |-> 0, rd |-> 0, cp |-> 0, dr |-> 0]
  /\ InitProcess

SpecEntry == InitEntry /\ [][NextEntry]_vars

\* A traversal whose caller makes and copies entries and reads them.
NextEntryRead ==
  \/ PyTraverser_next
  \/ CopyEntry
  \/ \E h \in CreatedHierarchies : CreateEntry(h)
  \/ \E i \in 1..MaxCopies, n \in ReadSizes : EntryRead(i, n)

SpecEntryRead == InitEntry /\ [][NextEntryRead]_vars

\* The objects a Python caller passes as paths: an archive file, two
\* files, a split archive as one multi-volume root, and the invalid ones:
\* no path, a path without components, a part list without parts.
PyPaths ==
  {PyStr("R"),
   PyList(<<PyStr("D/g"), PyStr("D/s/h")>>),
   PyList(<<PyList(<<PyList(<<PyStr("p2"), PyStr("p1")>>)>>)>>),
   PyList(<<>>),
   PyList(<<PyStr("R"), PyList(<<>>)>>),
   PyList(<<PyList(<<PyList(<<>>)>>)>>)}

\* PyTraverser::PyTraverser: the paths are normalized and the traverser is
\* constructed, or the exception of normalize_paths leaves the constructor
\* and there is no traverser.
InitBinding ==
  /\ \E obj \in PyPaths : \E r \in {normalize_paths(obj)} :
        /\ it = IF r.exc = "none" THEN begin(r.ret, build_options(<<>>)) ELSE IteratorInit(<<>>)
        /\ thrown = r.exc
        /\ started = (r.exc # "none")
        /\ ended = (r.exc # "none")
  /\ entry = NoEntry
  /\ last_entry = NoPyEntry
  /\ prev_entry = NoPyEntry
  /\ saved = <<>>
  /\ yielded = <<>>
  /\ faults = <<>>
  /\ passes = {}
  /\ used = [sd |-> 0, mk |-> 0, rd |-> 0, cp |-> 0, dr |-> 0]
  /\ InitProcess

\* A Python caller that uses the handle of the previous yield, and a C++
\* caller that holds an Entry with an empty hierarchy.
NextBinding ==
  \/ PyTraverser_next
  \/ \E enabled \in BOOLEAN : StaleSetDescent(enabled)
  \/ CreateEntry(<<>>)
  \/ \E i \in 1..MaxCopies, enabled \in BOOLEAN : EntrySetDescent(i, enabled)
  \/ \E i \in 1..MaxCopies, n \in ReadSizes : EntryRead(i, n)

SpecBinding == InitBinding /\ [][NextBinding]_vars

\* The forms in which a caller names the same roots, one set per root
\* list: a str, a list of str, a list of lists of str.
RootForms ==
  {{PyStr("R"), PyList(<<PyStr("R")>>), PyList(<<PyList(<<PyStr("R")>>)>>)},
   {PyStr("D"), PyList(<<PyStr("D")>>)},
   {PyList(<<PyStr("D/g"), PyStr("D/s/h")>>),
    PyList(<<PyList(<<PyStr("D/g")>>), PyStr("D/s/h")>>)},
   {PyList(<<PyList(<<PyList(<<PyStr("p1"), PyStr("p2")>>)>>)>>),
    PyList(<<PyList(<<PyList(<<PyStr("p2"), PyStr("p1")>>)>>)>>)}}

\* A traversal constructed from one of the forms, with descend_archives
\* left out or false, whose caller switches descent on single entries.
InitForms ==
  /\ \E forms \in RootForms : \E obj \in forms : \E d \in {<<>>, <<FALSE>>} :
        it = begin(normalize_paths(obj).ret, build_options(d))
  /\ entry = NoEntry
  /\ started = FALSE
  /\ ended = FALSE
  /\ last_entry = NoPyEntry
  /\ prev_entry = NoPyEntry
  /\ saved = <<>>
  /\ yielded = <<>>
  /\ faults = <<>>
  /\ passes = {}
  /\ thrown = "none"
  /\ used = [sd |-> 0, mk |-> 0, rd |-> 0, cp |-> 0, dr |-> 0]
  /\ InitProcess

NextForms ==
  \/ PyTraverser_next
  \/ \E enabled \in BOOLEAN : SetDescent(enabled)

SpecForms == InitForms /\ [][NextForms]_vars

(***************************************************************************)
(* The process-wide slots under threads                                    *)
(***************************************************************************)

\* Bounds on what one thread does: replacements of a slot, and calls that
\* read a slot.
MaxInstalls == 1
MaxCalls == 1

\* The callable a replacement of the slot s installs next.
NextCallable(s) == Callable(Cardinality(slots[s].installed))

\* set_root_stream_factory / register_fault_callback, called from a
\* thread's own code or from inside a callback that runs on it: the call
\* is entered with the value to install, which is a new callable or the
\* empty value.
set_slot(t, s, v) ==
  /\ threads[t].pc \in {"idle", "in_callback"}
  /\ threads[t].sets < MaxInstalls
  /\ threads' = [threads EXCEPT ![t] = [@ EXCEPT !.pc = "set_lock", !.slot = s, !.arg = v,
                                                !.ret = threads[t].pc, !.sets = @ + 1]]
  /\ UNCHANGED slots

\* ... takes the slot's mutex,
set_slot_lock(t) ==
  /\ threads[t].pc = "set_lock"
  /\ slots[threads[t].slot].lock = 0
  /\ slots' = [slots EXCEPT ![threads[t].slot].lock = t]
  /\ threads' = [threads EXCEPT ![t].pc = "set_assign"]

\* ... assigns the slot, which is not one step of the machine: the old
\* value goes first,
set_slot_assign(t) ==
  /\ threads[t].pc = "set_assign"
  /\ slots' = [slots EXCEPT ![threads[t].slot].value = TornValue]
  /\ threads' = [threads EXCEPT ![t].pc = "set_assigned"]

\* ... then the new value is in place,
set_slot_assigned(t) ==
  /\ threads[t].pc = "set_assigned"
  /\ slots' = [slots EXCEPT ![threads[t].slot].value = threads[t].arg,
                            ![threads[t].slot].installed = @ \cup {threads[t].arg}]
  /\ threads' = [threads EXCEPT ![t].pc = "set_unlock"]

\* ... and releases the mutex and returns to where it was called.
set_slot_unlock(t) ==
  /\ threads[t].pc = "set_unlock"
  /\ slots' = [slots EXCEPT ![threads[t].slot].lock = 0]
  /\ threads' = [threads EXCEPT ![t] = [@ EXCEPT !.pc = threads[t].ret, !.arg = EmptyValue,
                                                !.ret = "idle"]]

\* ArchiveStackCursor::create_stream for a root hierarchy (s = "factory")
\* and the dispatch of a fault (s = "callback") begin by calling the
\* slot's getter.
get_slot(t, s) ==
  /\ threads[t].pc = "idle"
  /\ threads[t].calls < MaxCalls
  /\ threads' = [threads EXCEPT ![t] = [@ EXCEPT !.pc = "get_lock", !.from = s,
                                                !.calls = @ + 1]]
  /\ UNCHANGED slots

\* A getter that returns the copy with the mutex still taken.
get_slot_unlock_keeps_lock(t) ==
  /\ threads[t].pc = "get_unlock"
  /\ threads' = [threads EXCEPT ![t].pc = "check"]
  /\ UNCHANGED slots

\* The getter takes the mutex,
get_slot_lock(t) ==
  /\ threads[t].pc = "get_lock"
  /\ slots[threads[t].from].lock = 0
  /\ slots' = [slots EXCEPT ![threads[t].from].lock = t]
  /\ threads' = [threads EXCEPT ![t].pc = "get_copy"]

\* ... copies the slot's value,
get_slot_copy(t) ==
  /\ threads[t].pc = "get_copy"
  /\ threads' = [threads EXCEPT ![t] = [@ EXCEPT !.pc = "get_unlock",
                                                !.snapshot = slots[threads[t].from].value]]
  /\ UNCHANGED slots

\* ... and releases the mutex and returns the copy.
get_slot_unlock(t) ==
  /\ threads[t].pc = "get_unlock"
  /\ slots' = [slots EXCEPT ![threads[t].from].lock = 0]
  /\ threads' = [threads EXCEPT ![t].pc = "check"]

\* create_stream: if (auto factory = get_root_stream_factory()); with an
\* empty snapshot the SystemFileStream is made and nothing is invoked.
\* The dispatch of a fault drops the fault when the snapshot is empty.
snapshot_check(t) ==
  /\ threads[t].pc = "check"
  /\ threads' = [threads EXCEPT ![t].pc =
                   IF threads[t].snapshot = EmptyValue THEN "idle" ELSE "invoke"]
  /\ UNCHANGED slots

\* create_stream that calls what the slot holds by now instead of its
\* snapshot.
create_stream_invoke_rereads(t) ==
  /\ threads[t].pc = "invoke"
  /\ threads[t].from = "factory"
  /\ threads' = [threads EXCEPT ![t] = [@ EXCEPT !.pc = "in_callback",
                                                !.running = slots["factory"].value]]
  /\ UNCHANGED slots

\* create_stream: factory(hierarchy), the call of the snapshot.
create_stream_invoke(t) ==
  /\ threads[t].pc = "invoke"
  /\ threads[t].from = "factory"
  /\ threads' = [threads EXCEPT ![t] = [@ EXCEPT !.pc = "in_callback",
                                                !.running = threads[t].snapshot]]
  /\ UNCHANGED slots

\* The dispatch of a fault: the call of the snapshot of the callback slot.
dispatch_fault_invoke(t) ==
  /\ threads[t].pc = "invoke"
  /\ threads[t].from = "callback"
  /\ threads' = [threads EXCEPT ![t] = [@ EXCEPT !.pc = "in_callback",
                                                !.running = threads[t].snapshot]]
  /\ UNCHANGED slots

\* The callable that was called returns, and the call that took the
\* snapshot with it.
callback_return(t) ==
  /\ threads[t].pc = "in_callback"
  /\ threads' = [threads EXCEPT ![t] = [@ EXCEPT !.pc = "idle", !.snapshot = EmptyValue,
                                                !.running = EmptyValue]]
  /\ UNCHANGED slots

\* No traverser runs while the threads work on the slots.
InitSlots ==
  /\ it = IteratorInit(<<>>)
  /\ entry = NoEntry
  /\ started = FALSE
  /\ ended = FALSE
  /\ last_entry = NoPyEntry
  /\ prev_entry = NoPyEntry
  /\ saved = <<>>
  /\ yielded = <<>>
  /\ faults = <<>>
  /\ passes = {}
  /\ thrown = "none"
  /\ used = [sd |-> 0, mk |-> 0, rd |-> 0, cp |-> 0, dr |-> 0]
  /\ InitProcess

NextSlots ==
  /\ UNCHANGED <<it, entry, started, ended, last_entry, prev_entry, saved, yielded,
                 faults, passes, thrown, used, cursor>>
  /\ \E t \in Threads :
       \/ \E s \in SlotNames : \E v \in {EmptyValue, NextCallable(s)} : set_slot(t, s, v)
       \/ set_slot_lock(t)
       \/ set_slot_assign(t)
       \/ set_slot_assigned(t)
       \/ set_slot_unlock(t)
       \/ \E s \in SlotNames : get_slot(t, s)
       \/ get_slot_lock(t)
       \/ get_slot_copy(t)
       \/ get_slot_unlock(t)
       \/ snapshot_check(t)
       \/ create_stream_invoke(t)
       \/ dispatch_fault_invoke(t)
       \/ callback_return(t)

SpecSlots == InitSlots /\ [][NextSlots]_vars

(***************************************************************************)
(* Traversers on separate threads                                          *)
(***************************************************************************)

\* The roots the threads' traversers are constructed with.
WorkerRootLists ==
  {<<make_single_path("R")>>,
   <<make_single_path("p3"), make_single_path("D")>>}

\* The entries a thread reads: the archives R, a and D/g, whose contents
\* the traverser would yield next, and the plain file t.
WorkerReads ==
  {make_single_path("R"), <<Single("R"), Single("a")>>, make_single_path("D/g"),
   <<Single("R"), Single("t")>>}

\* A thread that has constructed its own Traverser and not begun to
\* iterate: the instance, its current entry, and what the thread has
\* collected.
Worker(paths) ==
  [it |-> IteratorInit(paths), entry |-> NoEntry, started |-> FALSE, ended |-> FALSE,
   yielded |-> <<>>, reads |-> 0]

\* A step of the loop in which every thread advances the traverser of the
\* first thread instead of its own.
worker_next_shared_instance(t) ==
  /\ ~threads[t].ended
  /\ \E r \in {IF ~threads[1].started THEN fetch(threads[1].it, <<>>)
               ELSE increment(threads[1].it, threads[1].entry)} :
        /\ threads' = [u \in Threads |->
             IF u = t
             THEN [threads[t] EXCEPT
                     !.it = r.it, !.entry = r.e, !.started = TRUE,
                     !.ended = (r.kind # "entry"),
                     !.yielded = IF r.kind = "entry"
                                 THEN Append(@, [h |-> r.e.h, desc |-> r.e.descent_enabled])
                                 ELSE @]
             ELSE IF u = 1
             THEN [threads[1] EXCEPT !.it = r.it, !.entry = r.e, !.started = TRUE]
             ELSE threads[u]]
  /\ UNCHANGED <<it, entry, started, ended, last_entry, prev_entry, saved, yielded,
                 faults, passes, thrown, used, slots, cursor>>

\* A step of the loop for (Entry &entry : traverser) on the thread t:
\* begin() on the first step, operator++ afterwards, on the thread's own
\* instance.
worker_next(t) ==
  /\ ~threads[t].ended
  /\ \E r \in {IF ~threads[t].started THEN fetch(threads[t].it, <<>>)
               ELSE increment(threads[t].it, threads[t].entry)} :
        /\ threads' = [threads EXCEPT ![t] = [@ EXCEPT
                         !.it = r.it, !.entry = r.e, !.started = TRUE,
                         !.ended = (r.kind # "entry"),
                         !.yielded = IF r.kind = "entry"
                                     THEN Append(@, [h |-> r.e.h, desc |-> r.e.descent_enabled])
                                     ELSE @]]
  /\ UNCHANGED <<it, entry, started, ended, last_entry, prev_entry, saved, yielded,
                 faults, passes, thrown, used, slots, cursor>>

\* Entry::read of the current entry on the thread t; what it leaves of
\* the entry's descent flag is recorded with the entry.
worker_read(t, n) ==
  /\ threads[t].started
  /\ ~threads[t].ended
  /\ threads[t].entry.h \in WorkerReads
  /\ threads[t].reads < MaxLiveRead
  /\ \E r \in {entry_read(threads[t].entry, threads[t].it.o, n)} :
        /\ threads' = [threads EXCEPT ![t] = [@ EXCEPT
                         !.it = [threads[t].it EXCEPT !.o = r.o], !.entry = r.e,
                         !.yielded = [@ EXCEPT ![Len(@)].desc = r.e.descent_enabled],
                         !.reads = @ + 1]]
  /\ UNCHANGED <<it, entry, started, ended, last_entry, prev_entry, saved, yielded,
                 faults, passes, thrown, used, slots, cursor>>

\* Each thread constructs a Traverser of its own; no traverser is driven
\* from the main thread, and no fault callback is registered, so that the
\* faults the traversers dispatch are dropped.
InitWorkers ==
  /\ it = IteratorInit(<<>>)
  /\ entry = NoEntry
  /\ started = FALSE
  /\ ended = FALSE
  /\ last_entry = NoPyEntry
  /\ prev_entry = NoPyEntry
  /\ saved = <<>>
  /\ yielded = <<>>
  /\ faults = <<>>
  /\ passes = {}
  /\ thrown = "none"
  /\ used = [sd |-> 0, mk |-> 0, rd |-> 0, cp |-> 0, dr |-> 0]
  /\ slots = [s \in SlotNames |-> SlotInit]
  /\ threads \in [Threads -> {Worker(paths) : paths \in WorkerRootLists}]
  /\ cursor = CursorInit

NextWorkers ==
  \E t \in Threads :
    \/ worker_next(t)
    \/ \E n \in ReadSizes : worker_read(t, n)

SpecWorkers == InitWorkers /\ [][NextWorkers]_vars

(***************************************************************************)
(* A traversal that may be dropped before its end                          *)
(***************************************************************************)

\* The Traverser and its iterator are destroyed before the iteration has
\* come to its end: the orchestrator and its cursor go with them.
DropTraverser ==
  /\ started
  /\ ~ended
  /\ it' = [it EXCEPT !.o = [c |-> destroy_cursor(it.o.c), mv |-> <<>>]]
  /\ entry' = NoEntry
  /\ ended' = TRUE
  /\ last_entry' = NoPyEntry
  /\ prev_entry' = release_live_entry(last_entry)
  /\ thrown' = "none"
  /\ UNCHANGED <<started, saved, yielded, faults, passes, used>>
  /\ UNCHANGED <<slots, threads, cursor>>

NextDropped ==
  \/ PyTraverser_next
  \/ \E n \in ReadSizes : ReadLive(n)
  \/ DropTraverser

SpecDropped == Init /\ [][NextDropped]_vars

(***************************************************************************)
(* An ArchiveStackCursor driven directly                                   *)
(***************************************************************************)

\* The hierarchies a caller synchronizes the cursor to.
CursorTargets ==
  {<<>>,
   make_single_path("R"),
   make_single_path("p3"),
   <<Single("R"), Single("a")>>,
   <<Single("R"), Single("a"), Single("b")>>,
   <<Single("R"), Single("a"), Single("t")>>,
   <<Single("R"), Single("c")>>,
   <<Single("R"), Single("t")>>,
   <<Single("R"), Single("q")>>,
   <<MultiVolume(<<"p1", "p2">>, "G")>>,
   <<MultiVolume(<<"p1", "p2">>, "G"), Single("f")>>}

\* The cursor after a call op that returned r = [c, ret, exc, fh]: the
\* cursor itself, what the call returned or threw, and the cursor before.
AfterCall(op, r) ==
  [c |-> r.c, op |-> op, ret |-> r.ret, exc |-> r.exc, before |-> cursor.c]

\* The caller's calls leave everything but the cursor alone.
CursorOnly ==
  UNCHANGED <<it, entry, started, ended, last_entry, prev_entry, saved, yielded, faults,
              passes, thrown, used, slots, threads>>

\* cursor.synchronize_to_hierarchy(target); an exception is caught by the
\* caller, who goes on with the cursor as it is.
CursorSynchronize(target) ==
  /\ cursor' = AfterCall("synchronize_to_hierarchy", synchronize_to_hierarchy(cursor.c, target))
  /\ CursorOnly

\* cursor.descend()
CursorDescend ==
  /\ cursor' = AfterCall("descend", descend(cursor.c))
  /\ CursorOnly

\* cursor.next()
CursorNext ==
  /\ cursor' = AfterCall("next", next(cursor.c))
  /\ CursorOnly

\* cursor.ascend()
CursorAscend ==
  /\ cursor' = AfterCall("ascend", ascend(cursor.c))
  /\ CursorOnly

\* cursor.reset()
CursorReset ==
  /\ cursor' = AfterCall("reset", Ok(reset(cursor.c), TRUE))
  /\ CursorOnly

\* cursor.read(buf, n), called where the top slot holds a stream; whether
\* bytes came is what is kept of the result.
CursorRead(n) ==
  /\ cursor.c.stack # <<>>
  /\ cursor.c.stack[Len(cursor.c.stack)] # 0
  /\ \E r \in {read(cursor.c, n)} :
        cursor' = AfterCall("read", [r EXCEPT !.ret = (r.exc = "none" /\ r.ret # <<>>)])
  /\ CursorOnly

\* A cursor is constructed; no traverser runs.
InitCursor ==
  /\ it = IteratorInit(<<>>)
  /\ entry = NoEntry
  /\ started = FALSE
  /\ ended = FALSE
  /\ last_entry = NoPyEntry
  /\ prev_entry = NoPyEntry
  /\ saved = <<>>
  /\ yielded = <<>>
  /\ faults = <<>>
  /\ passes = {}
  /\ thrown = "none"
  /\ used = [sd |-> 0, mk |-> 0, rd |-> 0, cp |-> 0, dr |-> 0]
  /\ InitProcess

NextCursor ==
  \/ \E target \in CursorTargets : CursorSynchronize(target)
  \/ CursorDescend
  \/ CursorNext
  \/ CursorAscend
  \/ CursorReset
  \/ \E n \in ReadSizes : CursorRead(n)

SpecCursor == InitCursor /\ [][NextCursor]_vars

(***************************************************************************)
(* What the entries of the history are, read off the host filesystem and   *)
(* the archive images.                                                     *)
(***************************************************************************)

\* The bytes of the parts names, one after the other; level 1 names host
\* files, deeper levels name archive entries.
RECURSIVE PartsBytes(_, _)
PartsBytes(level, names) ==
  IF names = <<>> THEN <<>>
  ELSE (IF level = 1 THEN HostBytes(Head(names)) ELSE NameBytes(Head(names)))
       \o PartsBytes(level, Tail(names))

\* The payload of the entry a hierarchy names.
EntryBytes(h) == PartsBytes(Len(h), h[Len(h)].v)

\* The yielded entry y is a file whose payload is an archive image.
IsArchiveEntry(y) == ~y.isdir /\ Decode(EntryBytes(y.h)).ok

\* The archive y holds at least one entry with a name.
HasNamedEntry(y) ==
  \E i \in 1..Len(Decode(EntryBytes(y.h)).hdrs) : Decode(EntryBytes(y.h)).hdrs[i] # ""

(***************************************************************************)
(* C1: pre-order                                                           *)
(***************************************************************************)

\* C1 as stated: for every yielded entry that is a descendable archive with
\* descent enabled when the iterator advances, the next yielded entry, if
\* no fault came in between, has the entry's hierarchy as a strict prefix
\* of its own.
C1_PreOrderAsStated ==
  \A k \in 1..(Len(yielded) - 1) :
    (IsArchiveEntry(yielded[k]) /\ yielded[k].desc /\ yielded[k + 1].fs = <<>>)
      => IsStrictPrefix(yielded[k].h, yielded[k + 1].h)

\* C1, amended: the same for every descendable archive that holds at least
\* one named entry; after an archive without entries the next yield is the
\* archive's following sibling.
C1_PreOrder ==
  \A k \in 1..(Len(yielded) - 1) :
    (IsArchiveEntry(yielded[k]) /\ HasNamedEntry(yielded[k]) /\ yielded[k].desc
       /\ yielded[k + 1].fs = <<>>)
      => IsStrictPrefix(yielded[k].h, yielded[k + 1].h)

\* C1 happens: the nested archive a was yielded with descent enabled and
\* the next yield is its first entry; the empty archive z was passed too.
C1_Witness ==
  \E k \in 1..(Len(yielded) - 1) :
    /\ yielded[k].h = <<Single("R"), Single("a")>>
    /\ yielded[k].desc
    /\ yielded[k + 1].fs = <<>>
    /\ yielded[k + 1].h = <<Single("R"), Single("a"), Single("b")>>
    /\ \E j \in (k + 1)..Len(yielded) : yielded[j].h = <<Single("R"), Single("z")>>

(***************************************************************************)
(* C2: a nested archive's entries come between its header and its next     *)
(* sibling                                                                 *)
(***************************************************************************)

\* The hierarchy of the header that follows archive entry n in its
\* enclosing archive, or <<>> when n is the last header there.
FollowingSibling(n) ==
  LET hdrs == Decode(EntryBytes(ParentOf(n))).hdrs
      name == n[Len(n)].v[1]
      js == {j \in 1..Len(hdrs) : hdrs[j] = name}
      j == CHOOSE i \in js : TRUE
  IN IF n[Len(n)].k # "s" \/ js = {} THEN <<>>
     ELSE IF j = Len(hdrs) THEN <<>>
     ELSE append_single(ParentOf(n), hdrs[j + 1])

\* y is a sibling of n in the enclosing archive.
IsSibling(y, n) == Len(y.h) = Len(n) /\ ParentOf(y.h) = ParentOf(n) /\ y.h # n

\* C2: for every yielded entry k that lies inside a nested archive n (a
\* strict prefix of its hierarchy that itself lies in an archive): n's own
\* header was yielded before k; no sibling of n was yielded between n's
\* header and k; and when the yield after k is outside n, or the traversal
\* ends at k, the enclosing archive resumes with the header that follows n
\* (the yield after k is that sibling, if n has one).
C2_NestedBeforeSiblings ==
  \A k \in 1..Len(yielded) : \A m \in 2..(Len(yielded[k].h) - 1) :
    LET n == pathhierarchy_prefix_until(yielded[k].h, m - 1)
    IN /\ \E j \in 1..(k - 1) :
            /\ yielded[j].h = n
            /\ \A i \in (j + 1)..(k - 1) : ~IsSibling(yielded[i], n)
       /\ (k < Len(yielded) /\ ~IsStrictPrefix(n, yielded[k + 1].h) /\ FollowingSibling(n) # <<>>)
            => yielded[k + 1].h = FollowingSibling(n)
       /\ (k = Len(yielded) /\ ended) => FollowingSibling(n) = <<>>

\* C2 happens: the archive b nested in a was exhausted and a resumed with
\* b's following sibling p1; later a was exhausted and R resumed with c.
C2_Witness ==
  \E k \in 1..(Len(yielded) - 1), j \in 1..(Len(yielded) - 1) :
    /\ yielded[k].h = <<Single("R"), Single("a"), Single("b"), Single("t")>>
    /\ yielded[k + 1].h = <<Single("R"), Single("a"), Single("p1")>>
    /\ k < j
    /\ yielded[j].h = <<Single("R"), Single("a"), Single("t")>>
    /\ yielded[j + 1].h = <<Single("R"), Single("c")>>

(***************************************************************************)
(* C3: descent disabled on an entry                                        *)
(***************************************************************************)

\* C3: when descent is disabled on a yielded entry at the time the iterator
\* advances past it, no entry yielded later in the traversal has the
\* entry's hierarchy as a strict prefix, and the next yield is the entry's
\* following sibling when its enclosing archive has one.
C3_NoDescentWhenDisabled ==
  \A k \in 1..(Len(yielded) - 1) :
    ~yielded[k].desc =>
      /\ \A j \in (k + 1)..Len(yielded) : ~IsStrictPrefix(yielded[k].h, yielded[j].h)
      /\ (Len(yielded[k].h) >= 2 /\ FollowingSibling(yielded[k].h) # <<>>)
           => yielded[k + 1].h = FollowingSibling(yielded[k].h)

\* C3 happens: descent was disabled by set_descent (no read) on the nested
\* archive a, the next yield is a's sibling c, and the traversal has ended.
C3_Witness ==
  /\ ended
  /\ \E k \in 1..(Len(yielded) - 1) :
       /\ yielded[k].h = <<Single("R"), Single("a")>>
       /\ ~yielded[k].desc
       /\ ~yielded[k].rd
       /\ yielded[k + 1].h = <<Single("R"), Single("c")>>

(***************************************************************************)
(* C4: depth                                                               *)
(***************************************************************************)

\* C4: the depth of every entry yielded so far, and the depth the latest
\* handle reports, is the length of the entry's hierarchy minus one.
C4_DepthIsLengthMinusOne ==
  /\ \A k \in 1..Len(yielded) : yielded[k].depth = Len(yielded[k].h) - 1
  /\ last_entry.h # <<>> => last_entry.depth = Len(last_entry.h) - 1

\* C4 happens: one traversal of directory D has yielded a directory, an
\* entry of the archive D/g, the activated multi-volume group made of D/g
\* at depth 0, and now the group's entry t at depth 1.
C4_Witness ==
  /\ \E k \in 1..Len(yielded) : yielded[k].isdir /\ yielded[k].h = <<Single("D")>>
  /\ \E k \in 1..Len(yielded) : yielded[k].h = <<Single("D/g"), Single("t")>>
  /\ \E k \in 1..Len(yielded) :
       yielded[k].h = <<MultiVolume(<<"D/g">>, "N")>> /\ yielded[k].depth = 0
  /\ last_entry.h = <<MultiVolume(<<"D/g">>, "N"), Single("t")>>
  /\ last_entry.depth = 1

(***************************************************************************)
(* C5: a fault in a nested archive leaves the siblings                     *)
(***************************************************************************)

\* C5: for every yielded file entry whose bytes are no archive and whose
\* descent is enabled when the iterator advances: the advance dispatches,
\* first of all, a fault naming the entry's hierarchy; no entry below the
\* entry is ever yielded; and the next yield is the header that follows the
\* entry in the enclosing archive, when there is one.
C5_FaultLeavesSiblings ==
  \A k \in 1..Len(yielded) :
    (~yielded[k].isdir /\ ~IsArchiveEntry(yielded[k]) /\ yielded[k].desc)
      => /\ k < Len(yielded) =>
              /\ yielded[k + 1].fs # <<>>
              /\ Head(yielded[k + 1].fs) = yielded[k].h
              /\ (Len(yielded[k].h) >= 2 /\ FollowingSibling(yielded[k].h) # <<>>)
                   => yielded[k + 1].h = FollowingSibling(yielded[k].h)
         /\ (k = Len(yielded) /\ ended) =>
              /\ \E i \in 1..Len(faults) : faults[i] = [n |-> k, h |-> yielded[k].h]
              /\ Len(yielded[k].h) >= 2 => FollowingSibling(yielded[k].h) = <<>>
         /\ \A j \in (k + 1)..Len(yielded) : ~IsStrictPrefix(yielded[k].h, yielded[j].h)

\* C5 happens: the corrupt nested archive c was passed with descent
\* enabled, the fault naming it was dispatched, and its sibling z came next.
C5_Witness ==
  \E k \in 1..(Len(yielded) - 1) :
    /\ yielded[k].h = <<Single("R"), Single("c")>>
    /\ yielded[k].desc
    /\ yielded[k + 1].h = <<Single("R"), Single("z")>>
    /\ yielded[k + 1].fs = <<<<Single("R"), Single("c")>>>>
    /\ \E i \in 1..Len(faults) : faults[i] = [n |-> k, h |-> yielded[k].h]

(***************************************************************************)
(* C6: an increment does not throw for recoverable faults                  *)
(***************************************************************************)

\* C6: no call unwinds with a fault (a call that unwinds does so with an
\* invalid-argument or logic error), and for every yielded file entry that
\* cannot be opened as an archive (unreadable file, malformed archive,
\* multi-volume group whose activation fails) and was passed with descent
\* enabled, the increment past it returned normally and delivered a fault
\* naming the entry to the callback.
C6_IncrementDispatchesFaults ==
  /\ thrown \in {"none", "invalid", "logic"}
  /\ \A k \in 1..Len(yielded) :
       (~yielded[k].isdir /\ ~IsArchiveEntry(yielded[k]) /\ yielded[k].desc
          /\ (k < Len(yielded) \/ ended))
         => \E i \in 1..Len(faults) : faults[i] = [n |-> k, h |-> yielded[k].h]

\* C6 happens: a traversal of directory D has ended without a throw; the
\* unreadable file D/s/u, the file D/s/h that is no archive, and the
\* multi-volume group made of D/s/u have each had their fault delivered.
C6_Witness ==
  /\ ended
  /\ thrown = "none"
  /\ \E i \in 1..Len(faults) : faults[i].h = <<Single("D/s/u")>>
  /\ \E i \in 1..Len(faults) : faults[i].h = <<Single("D/s/h")>>
  /\ \E i \in 1..Len(faults), ord \in Orderings :
       faults[i].h = <<MultiVolume(<<"D/s/u">>, ord)>>

(***************************************************************************)
(* C7: one live entry                                                      *)
(***************************************************************************)

\* The host files an entry is read from can be opened.
Readable(h) == \A i \in 1..Len(h[1].v) : HostKind(h[1].v[i]) = "file"

\* C7: at every point the handle of the previous yield is not live and a
\* live handle is the one of the latest yield; a held copy read for the
\* first time gives the entry's bytes; and set_descent through the handle
\* of the previous yield raises and leaves the iterator, the current Entry
\* and what has been yielded as they were.
C7_OneLiveEntry ==
  /\ [](/\ ~prev_entry.live
        /\ last_entry.live =>
             (~ended /\ yielded # <<>> /\ last_entry.h = yielded[Len(yielded)].h)
        /\ \A p \in passes : (p.fresh /\ Readable(p.h)) => (p.ok /\ p.bytes = EntryBytes(p.h)))
  /\ [][\A enabled \in BOOLEAN :
          StaleSetDescent(enabled)
            => (it' = it /\ entry' = entry /\ yielded' = yielded /\ thrown' = "value_error")]_vars

\* C7 happens: the traversal has advanced past a copied entry; the handle
\* of the previous yield is released while the latest one is live, a
\* set_descent through the released handle has just raised, and the copy
\* has been read to its end.
C7_Witness ==
  /\ last_entry.live
  /\ prev_entry.h # <<>>
  /\ ~prev_entry.live
  /\ thrown = "value_error"
  /\ \E p \in passes : p.fresh /\ p.ok /\ p.bytes # <<>> /\ p.h # last_entry.h

(***************************************************************************)
(* C8: a live read disables descent                                        *)
(***************************************************************************)

\* C8: a read on the live Entry leaves its descent_enabled false; an
\* advance past an Entry that was read and whose descent is still disabled
\* does not yield an entry from inside it, and no later advance does.
C8_LiveReadDisablesDescent ==
  /\ [][\A n \in ReadSizes :
          ReadLive(n) => (~entry'.descent_enabled /\ ~yielded'[Len(yielded)].desc)]_vars
  /\ [][(PyTraverser_next /\ started /\ yielded[Len(yielded)].rd /\ ~entry.descent_enabled)
          => (ended' \/ ~IsStrictPrefix(entry.h, entry'.h))]_vars
  /\ [](\A k \in 1..Len(yielded) : \A j \in (k + 1)..Len(yielded) :
          (yielded[k].rd /\ ~yielded[k].desc) => ~IsStrictPrefix(yielded[k].h, yielded[j].h))

\* C8 happens: the nested archive a was read while live (the read returned
\* data), its descent was left disabled, and the advance yielded a's
\* sibling c.
C8_Witness ==
  \E k \in 1..(Len(yielded) - 1) :
    /\ yielded[k].h = <<Single("R"), Single("a")>>
    /\ yielded[k].rd
    /\ ~yielded[k].desc
    /\ yielded[k + 1].h = <<Single("R"), Single("c")>>

(***************************************************************************)
(* C9: reading a detached entry again gives the same bytes                 *)
(***************************************************************************)

\* C9: any two read-to-end passes over detached entries of the same
\* hierarchy that each started on a newly opened hierarchy (the implicit
\* rewind) returned the same bytes with the same outcome, wherever the
\* traversal stood; over readable host files these are the entry's bytes.
C9_RewindReadIdempotent ==
  /\ \A p \in passes, q \in passes :
       (p.fresh /\ q.fresh /\ p.h = q.h) => (p.ok = q.ok /\ p.bytes = q.bytes)
  /\ \A p \in passes : (p.fresh /\ Readable(p.h)) => (p.ok /\ p.bytes = EntryBytes(p.h))

\* C9 happens: an archive entry of more than one chunk was read to its end
\* twice after a rewind, once during the traversal and once after it had
\* ended, with the same bytes.
C9_Witness ==
  \E p \in passes, q \in passes :
    /\ p.fresh /\ q.fresh
    /\ p.h = q.h
    /\ Len(p.h) >= 2
    /\ ~p.fin /\ q.fin
    /\ p.ok /\ q.ok
    /\ Len(p.bytes) > ChunkSize
    /\ p.bytes = q.bytes

(***************************************************************************)
(* C10: a detached read leaves the traversal alone                         *)
(***************************************************************************)

\* The hierarchies a traversal of paths yields when nothing but the
\* iterator is used.
RECURSIVE RunOn(_, _, _)
RunOn(itx, e, acc) ==
  Let(increment(itx, e), LAMBDA r :
  IF r.kind # "entry" THEN acc ELSE RunOn(r.it, r.e, Append(acc, r.e.h)))

Undisturbed(paths) ==
  Let(fetch(IteratorInit(paths), <<>>), LAMBDA r :
  IF r.kind # "entry" THEN <<>> ELSE RunOn(r.it, r.e, <<r.e.h>>))

\* The same for each root list a Traverser is constructed with, as pairs
\* of the root list and its entries.
UndisturbedOf == {<<paths, Undisturbed(paths)>> : paths \in RootLists}

\* C10: a read of a held copy, and a read through a released handle, leave
\* the iterator (its orchestrator with it) and the current Entry as they
\* were; and the entries yielded are, one after the other, those of the
\* traversal in which no detached read happens.
C10_DetachedReadIsPrivate ==
  /\ [][(/\ used'.dr = used.dr + 1
          /\ \/ \E i \in 1..MaxCopies, viaCopy \in BOOLEAN : ReadDetached(i, viaCopy)
             \/ StaleRead)
          => (it' = it /\ entry' = entry)]_vars
  /\ [](\E t \in UndisturbedOf : LET ref == t[2] IN
          /\ t[1] = it.paths
          /\ Len(yielded) <= Len(ref)
          /\ \A k \in 1..Len(yielded) : yielded[k].h = ref[k]
          /\ ended => Len(yielded) = Len(ref))

\* C10 happens: an entry inside an archive was read detached, to its end,
\* while the traversal stood inside that archive; the traversal then went
\* on to its end.
C10_Witness ==
  /\ ended
  /\ \E t \in UndisturbedOf : t[1] = it.paths /\ Len(yielded) = Len(t[2])
  /\ \E p \in passes :
       /\ ~p.fin
       /\ p.ok
       /\ p.bytes # <<>>
       /\ Len(p.h) >= 2

(***************************************************************************)
(* C11: when a marked multi-volume group is activated                      *)
(***************************************************************************)

\* The last component of a hierarchy.
TailOf(h) == h[Len(h)]

\* Yield j is an entry that was marked and is one of the parts the
\* aggregated entry at yield k lists.
IsMarkedPartOf(j, k) ==
  /\ yielded[j].mk
  /\ TailOf(yielded[j].h).k = "s"
  /\ ParentOf(yielded[j].h) = ParentOf(yielded[k].h)
  /\ \E i \in 1..Len(TailOf(yielded[k].h).v) :
       TailOf(yielded[k].h).v[i] = TailOf(yielded[j].h).v[1]

\* Yield k is the aggregated entry of an activated group.
IsAggregate(k) ==
  /\ TailOf(yielded[k].h).k = "m"
  /\ \E j \in 1..(k - 1) : IsMarkedPartOf(j, k)

\* The index of the last-yielded part of the group activated at yield k.
LastPart(k) ==
  CHOOSE j \in 1..(k - 1) :
    IsMarkedPartOf(j, k) /\ \A i \in 1..(k - 1) : IsMarkedPartOf(i, k) => i <= j

SplitArchives == {<<"p1", "p2">>, <<"D/g">>}

\* The names in a part list.
PartSet(v) == {v[i] : i \in 1..Len(v)}

\* The part list v names some but not all parts of a split archive.
IsStrictSubset(v) ==
  \E s \in SplitArchives : PartSet(v) \subseteq PartSet(s) /\ PartSet(v) # PartSet(s)

\* The part list v names every part of a split archive.
IsComplete(v) == \E s \in SplitArchives : PartSet(v) = PartSet(s)

\* C12: after the aggregated entry of a group that holds a strict subset of
\* the parts, no entry from inside it is ever yielded, and once the
\* traversal has moved on the fault of its failed descent has been
\* dispatched if descent was enabled; after the aggregated entry of a group
\* that holds every part, passed with descent enabled, the next yield is the
\* first entry of the aggregated archive.
C12_AllPartsNeeded ==
  \A k \in 1..Len(yielded) :
    IsAggregate(k) =>
      LET v == TailOf(yielded[k].h).v
      IN /\ IsStrictSubset(v) =>
              /\ \A j \in 1..Len(yielded) : ~IsStrictPrefix(yielded[k].h, yielded[j].h)
              /\ (yielded[k].desc /\ (k < Len(yielded) \/ ended)) =>
                   \E i \in 1..Len(faults) : faults[i] = [n |-> k, h |-> yielded[k].h]
         /\ (IsComplete(v) /\ yielded[k].desc /\ (k < Len(yielded) \/ ended)) =>
              /\ k < Len(yielded)
              /\ yielded[k + 1].h =
                   append_single(yielded[k].h, Decode(EntryBytes(yielded[k].h)).hdrs[1])

\* C12 happens: only p1 of the parts p1, p2 in archive a was marked; its
\* group was activated, the descent into the aggregated entry faulted, and
\* the traversal has ended with nothing yielded from inside it.
C12_Witness ==
  /\ ended
  /\ \E k \in 1..Len(yielded) :
       /\ IsAggregate(k)
       /\ TailOf(yielded[k].h).v = <<"p1">>
       /\ Len(yielded[k].h) = 3
       /\ yielded[k].desc
       /\ \E i \in 1..Len(faults) : faults[i] = [n |-> k, h |-> yielded[k].h]
  /\ \A j \in 1..Len(yielded) :
       TailOf(yielded[j].h).v[1] = "p2" => ~yielded[j].mk

(***************************************************************************)
(* C13: every marked group is activated before its root is complete        *)
(***************************************************************************)

\* The group the marked yield j belongs to has been resolved: its
\* aggregated entry was yielded later, or a fault naming an aggregated
\* hierarchy that lists the part was dispatched.
IsResolved(j) ==
  \/ \E k \in (j + 1)..Len(yielded) : IsAggregate(k) /\ IsMarkedPartOf(j, k)
  \/ \E i \in 1..Len(faults) :
       /\ faults[i].n >= j
       /\ TailOf(faults[i].h).k = "m"
       /\ ParentOf(faults[i].h) = ParentOf(yielded[j].h)
       /\ TailOf(yielded[j].h).v[1] \in PartSet(TailOf(faults[i].h).v)

\* Yield i is an entry of another root than yield j (another root of the
\* list or another entry of the directory).
IsOtherRoot(j, i) == Len(yielded[i].h) = 1 /\ ~IsAggregate(i) /\ yielded[i].h[1] # yielded[j].h[1]

\* C13: no group is pending when the traversal of a root is complete (a new
\* root or directory entry has been yielded and not yet marked, or the
\* traversal has ended); every group that is pending lies under the
\* hierarchy the traversal is in; and every marked entry whose root is
\* complete has had its group resolved, also when descent was disabled on
\* it.
C13_GroupsActivated ==
  /\ ended => it.o.mv = <<>>
  /\ (~ended /\ yielded # <<>> /\ Len(entry.h) = 1 /\ TailOf(entry.h).k = "s"
        /\ ~yielded[Len(yielded)].mk) => it.o.mv = <<>>
  /\ \A g \in 1..Len(it.o.mv) :
       /\ ~ended /\ yielded # <<>>
       /\ it.o.mv[g].parent = <<>> \/ IsStrictPrefix(it.o.mv[g].parent, entry.h)
       /\ \A p \in 1..Len(it.o.mv[g].parts) : \E j \in 1..Len(yielded) :
            yielded[j].mk /\ yielded[j].h = it.o.mv[g].parts[p] /\ ~IsResolved(j)
  /\ \A j \in 1..Len(yielded) :
       (yielded[j].mk /\ (ended \/ \E i \in (j + 1)..Len(yielded) : IsOtherRoot(j, i)))
         => IsResolved(j)

\* C13 happens: in the traversal of directory D the file D/g was marked and
\* its descent disabled; the aggregated entry came right after it, and the
\* traversal went on to the next directory entry and to its end.
C13_Witness ==
  /\ ended
  /\ \E j \in 1..(Len(yielded) - 2) :
       /\ yielded[j].h = <<Single("D/g")>>
       /\ yielded[j].mk
       /\ ~yielded[j].desc
       /\ IsAggregate(j + 1)
       /\ IsMarkedPartOf(j, j + 1)
       /\ \E i \in (j + 2)..Len(yielded) : IsOtherRoot(j, i)

(***************************************************************************)
(* C14: no entry is yielded twice                                          *)
(***************************************************************************)

\* The named headers of the archive the yielded entry y is.
NamedHeaders(y) ==
  {Decode(EntryBytes(y.h)).hdrs[i] : i \in 1..Len(Decode(EntryBytes(y.h)).hdrs)} \ {""}

\* C14: at every point the hierarchies yielded so far are pairwise
\* different; every call of next yields at most one entry, the iterator's
\* current one; and once the traversal has moved past an archive that was
\* descended into, each of its named headers has been yielded exactly once.
C14_NoDuplicateYields ==
  /\ [](\A j \in 1..Len(yielded) : \A k \in (j + 1)..Len(yielded) :
          yielded[j].h # yielded[k].h)
  /\ [][PyTraverser_next =>
          /\ Len(yielded') <= Len(yielded) + 1
          /\ ~ended' => (Len(yielded') = Len(yielded) + 1
                           /\ yielded'[Len(yielded')].h = entry'.h)]_vars
  /\ [](\A k \in 1..Len(yielded) :
          (IsArchiveEntry(yielded[k]) /\ yielded[k].desc
             /\ (ended \/ \E i \in (k + 1)..Len(yielded) :
                            ~IsStrictPrefix(yielded[k].h, yielded[i].h) /\ ~IsAggregate(i)))
            => \A n \in NamedHeaders(yielded[k]) :
                 Cardinality({j \in 1..Len(yielded) :
                                yielded[j].h = append_single(yielded[k].h, n)}) = 1)

\* C14 happens: a traversal has ended in which a group was activated inside
\* archive a and yielded its entry, after which the cursor ascended twice
\* and the root archive resumed with the header c.
C14_Witness ==
  /\ ended
  /\ \E k \in 1..(Len(yielded) - 2) :
       /\ IsAggregate(k)
       /\ Len(yielded[k].h) = 3
       /\ yielded[k + 1].h = Append(yielded[k].h, Single("f"))
       /\ yielded[k + 2].h = <<Single("R"), Single("c")>>

(***************************************************************************)
(* C15: a group with a missing or unreadable part                          *)
(***************************************************************************)

\* The hierarchy is a multi-volume source over host files of which at
\* least one is missing or cannot be opened.
HasUnavailablePart(h) ==
  /\ Len(h) = 1
  /\ TailOf(h).k = "m"
  /\ \E i \in 1..Len(TailOf(h).v) : HostKind(TailOf(h).v[i]) # "file"

\* The host paths of the roots that are files or multi-volume sources.
FileRoots(paths) ==
  {paths[r] : r \in {i \in 1..Len(paths) :
                       paths[i][1].k = "m" \/ HostKind(paths[i][1].v[1]) # "dir"}}

\* C15: no call of next unwinds; what has been yielded stays as it was
\* yielded; for every multi-volume entry with a missing or unreadable part
\* that was passed with descent enabled, a fault naming it was dispatched by
\* the advance past it, nothing below it is yielded, and the yield after it
\* is the next root; and a traversal that has ended has yielded every file
\* root of its list.
C15_MissingPartsFault ==
  /\ [](thrown = "none")
  /\ [][/\ Len(yielded') >= Len(yielded)
        /\ \A k \in 1..Len(yielded) :
             yielded'[k].h = yielded[k].h /\ yielded'[k].fs = yielded[k].fs]_vars
  /\ [](\A k \in 1..Len(yielded) :
          (HasUnavailablePart(yielded[k].h) /\ yielded[k].desc /\ (k < Len(yielded) \/ ended))
            => /\ \E i \in 1..Len(faults) : faults[i] = [n |-> k, h |-> yielded[k].h]
               /\ \A j \in 1..Len(yielded) : ~IsStrictPrefix(yielded[k].h, yielded[j].h)
               /\ k < Len(yielded) => Len(yielded[k + 1].h) = 1)
  /\ [](ended => \A r \in FileRoots(it.paths) : \E k \in 1..Len(yielded) : yielded[k].h = r)

\* C15 happens: the multi-volume root whose part p3 is missing was yielded,
\* the advance past it dispatched a fault, and the traversal went on to the
\* next root D/g and its entry t, and ended.
C15_Witness ==
  /\ ended
  /\ thrown = "none"
  /\ Len(yielded) >= 3
  /\ yielded[1].h = <<MultiVolume(<<"p1", "p3">>, "G")>>
  /\ yielded[2].h = <<Single("D/g")>>
  /\ yielded[2].fs = <<yielded[1].h>>
  /\ yielded[3].h = <<Single("D/g"), Single("t")>>

(***************************************************************************)
(* C16: roots in the order given; a failing root ends only itself          *)
(***************************************************************************)

\* The host paths at and below a host path.
RECURSIVE DirTree(_)
DirTree(p) == {p} \cup UNION {DirTree(DirList(p)[i]) : i \in 1..Len(DirList(p))}

\* The entry hierarchy h belongs to the root: its first component is the
\* root, a path below the root directory, or a group of such paths.
BelongsToRoot(root, h) ==
  \/ root[1] = h[1]
  \/ /\ root[1].k = "s"
     /\ \E i \in 1..Len(h[1].v) : h[1].v[i] \in DirTree(root[1].v[1])

\* The index in the root list of the root the hierarchy h belongs to, 0
\* when it belongs to none.
RootIndex(paths, h) ==
  IF \E r \in 1..Len(paths) : BelongsToRoot(paths[r], h)
  THEN CHOOSE r \in 1..Len(paths) : BelongsToRoot(paths[r], h)
  ELSE 0

\* The root yielded at k cannot be traversed: it is a file root that is
\* missing, unreadable or no archive.
IsFailingRoot(k) ==
  /\ Len(yielded[k].h) = 1
  /\ ~yielded[k].isdir
  /\ ~IsAggregate(k)
  /\ (~Readable(yielded[k].h) \/ ~IsArchiveEntry(yielded[k]))

\* C16: every yielded entry belongs to a root of the list, and the roots
\* of the entries yielded so far are in the order of the list; a root that
\* fails when it is descended into yields nothing below it; when the
\* traversal has ended every root of the list has yielded an entry; and a
\* root archive or root directory passed with descent enabled is followed
\* by its first entry, also after a root that failed.
C16_RootsInOrder ==
  /\ \A k \in 1..Len(yielded) : RootIndex(it.paths, yielded[k].h) # 0
  /\ \A j \in 1..Len(yielded) : \A k \in (j + 1)..Len(yielded) :
       RootIndex(it.paths, yielded[j].h) <= RootIndex(it.paths, yielded[k].h)
  /\ \A k \in 1..Len(yielded) : IsFailingRoot(k) =>
       \A j \in 1..Len(yielded) : ~IsStrictPrefix(yielded[k].h, yielded[j].h)
  /\ ended => \A r \in 1..Len(it.paths) :
       \E k \in 1..Len(yielded) : RootIndex(it.paths, yielded[k].h) = r
  /\ \A k \in 1..Len(yielded) :
       (Len(yielded[k].h) = 1 /\ yielded[k].desc /\ (k < Len(yielded) \/ ended))
         => /\ (IsArchiveEntry(yielded[k]) /\ HasNamedEntry(yielded[k]) /\ Readable(yielded[k].h))
                 => (k < Len(yielded) /\ IsStrictPrefix(yielded[k].h, yielded[k + 1].h))
            /\ (yielded[k].isdir /\ DirList(yielded[k].h[1].v[1]) # <<>>)
                 => (k < Len(yielded)
                       /\ yielded[k + 1].h = make_single_path(DirList(yielded[k].h[1].v[1])[1]))

\* C16 happens: the first root p3 is missing and its descent faulted; the
\* second root, directory D, was then traversed down to the entry of the
\* archive D/g, and the traversal has ended.
C16_Witness ==
  /\ ended
  /\ Len(yielded) >= 4
  /\ IsFailingRoot(1)
  /\ yielded[1].h = make_single_path("p3")
  /\ yielded[2].h = make_single_path("D")
  /\ yielded[2].fs = <<yielded[1].h>>
  /\ yielded[3].h = make_single_path("D/g")
  /\ yielded[4].h = <<Single("D/g"), Single("t")>>

(***************************************************************************)
(* C17: the descend_archives option                                        *)
(***************************************************************************)

\* The host directories of the fixture.
Directories == {"D", "D/s"}

\* The host path p is an entry of the directory q.
InDirectory(p, q) == \E i \in 1..Len(DirList(q)) : DirList(q)[i] = p

\* The host path p is one of the roots of the traversal.
IsRootPath(p) == \E i \in 1..Len(it.paths) : it.paths[i] = make_single_path(p)

\* The entry yielded k-th is the first entry of the directory yielded j-th.
IsFirstOfDirectory(k, j) ==
  /\ yielded[j].isdir
  /\ DirList(yielded[j].h[1].v[1]) # <<>>
  /\ yielded[k].h = make_single_path(DirList(yielded[j].h[1].v[1])[1])

\* Every entry inside an archive follows the entry of that archive, and
\* that entry had descent enabled when the iterator advanced past it.
InsideArchiveOnlyWhenEnabled ==
  \A k \in 1..Len(yielded) :
    Len(yielded[k].h) >= 2 =>
      \E j \in 1..(k - 1) : yielded[j].h = ParentOf(yielded[k].h) /\ yielded[j].desc

\* An entry with descent enabled when the iterator advances is descended
\* into: the first entry of the archive or directory is the next yield.
EnabledIsDescended ==
  \A k \in 1..(Len(yielded) - 1) :
    (yielded[k].desc /\ yielded[k + 1].fs = <<>>) =>
      /\ (IsArchiveEntry(yielded[k]) /\ HasNamedEntry(yielded[k]))
           => IsStrictPrefix(yielded[k].h, yielded[k + 1].h)
      /\ (yielded[k].isdir /\ DirList(yielded[k].h[1].v[1]) # <<>>)
           => IsFirstOfDirectory(k + 1, k)

\* A newly yielded entry has descent enabled when the options are the
\* default ones and disabled when descend_archives is false.
CreatedWithDefault ==
  (Len(yielded') = Len(yielded) + 1) =>
     /\ (it.options = TraverserOptions) => yielded'[Len(yielded')].desc
     /\ ~it.options.descend_archives => ~yielded'[Len(yielded')].desc

DispatchedFaultNaming(op, h) ==
  /\ Len(faults') = Len(faults) + 1
  /\ SubSeq(faults', 1, Len(faults)) = faults
  /\ faults'[Len(faults')].msg = op
  /\ faults'[Len(faults')].h = h

\* C18: a call of set_descent or set_multi_volume_group on a held entry,
\* which is a copy or was made by hand and so is not traverser-managed,
\* dispatches a fault whose message names the operation, raises nothing,
\* and leaves the descent flag of every entry (held, live, yielded) and
\* the pending groups of the traverser as they were.
C18_UnmanagedControlsFault ==
  [][\A i \in 1..Len(saved) :
       /\ (\E enabled \in BOOLEAN : EntrySetDescent(i, enabled))
            => /\ DispatchedFaultNaming("set_descent", saved[i].h)
               /\ thrown' = "none"
               /\ saved' = saved /\ entry' = entry /\ yielded' = yielded
               /\ it' = it
       /\ (\E base \in BaseNames, ord \in Orderings : EntrySetMultiVolumeGroup(i, base, ord))
            => /\ DispatchedFaultNaming("set_multi_volume_group", saved[i].h)
               /\ thrown' = "none"
               /\ saved' = saved /\ entry' = entry /\ yielded' = yielded
               /\ it'.o.mv = it.o.mv]_vars

\* C18 happens: while a group is pending in the traverser's manager, both
\* calls were made on a held copy, whose descent flag is still enabled, and
\* the two faults were dispatched.
C18_Witness ==
  /\ it.o.mv # <<>>
  /\ Len(saved) = 1
  /\ saved[1].h = <<Single("D/g"), Single("t")>>
  /\ saved[1].descent_enabled
  /\ \E i, j \in 1..Len(faults) :
       /\ i < j
       /\ faults[i] = [n |-> faults[i].n, h |-> saved[1].h, msg |-> "set_descent"]
       /\ faults[j] = [n |-> faults[j].n, h |-> saved[1].h, msg |-> "set_multi_volume_group"]

(***************************************************************************)
(* C19: invalid arguments are raised, not dispatched                       *)
(***************************************************************************)

\* After PyTraverser's constructor: either it raised std::invalid_argument,
\* there is no traverser and no fault was dispatched, or the traverser has
\* at least one root, no root hierarchy is empty and no part list is.
ConstructedOrRaised ==
  /\ it.paths = <<>> => (thrown = "invalid" /\ ended /\ faults = <<>> /\ yielded = <<>>)
  /\ it.paths # <<>> =>
       /\ thrown = "none"
       /\ \A i \in 1..Len(it.paths) :
            /\ it.paths[i] # <<>>
            /\ \A j \in 1..Len(it.paths[i]) : it.paths[i][j].v # <<>>

\* A step that raises dispatches no fault.
RaisedNotDispatched == thrown' # "none" => faults' = faults

\* set_descent through a released handle raises ValueError and changes
\* nothing.
StaleHandleRaises ==
  \A enabled \in BOOLEAN :
    (StaleSetDescent(enabled) /\ ~prev_entry.live) =>
       /\ thrown' = "value_error"
       /\ faults' = faults
       /\ it' = it /\ entry' = entry /\ yielded' = yielded

\* C19 as stated: besides construction and the released handle, a read of
\* an Entry whose hierarchy is empty and set_descent on an Entry that is
\* not live raise an error and dispatch no fault.
C19_InvalidArgumentsRaised ==
  /\ ConstructedOrRaised
  /\ [][/\ RaisedNotDispatched
        /\ StaleHandleRaises
        /\ \A i \in 1..Len(saved) :
             /\ (saved[i].h = <<>> /\ \E n \in ReadSizes : EntryRead(i, n))
                  => (thrown' # "none" /\ faults' = faults)
             /\ (\E enabled \in BOOLEAN : EntrySetDescent(i, enabled))
                  => (thrown' # "none" /\ faults' = faults)]_vars

\* C19, amended: invalid paths given to the constructor and an operation
\* on a released handle are raised and dispatch no fault, and no step both
\* raises and dispatches; a read of an Entry whose hierarchy is empty and
\* set_descent on an Entry that is not traverser-managed raise nothing and
\* dispatch a fault.
C19_InvalidArgumentsRaisedAtBoundary ==
  /\ ConstructedOrRaised
  /\ [][/\ RaisedNotDispatched
        /\ StaleHandleRaises
        /\ \A i \in 1..Len(saved) :
             /\ (saved[i].h = <<>> /\ \E n \in ReadSizes : EntryRead(i, n))
                  => (thrown' = "none" /\ Len(faults') > Len(faults))
             /\ (\E enabled \in BOOLEAN : EntrySetDescent(i, enabled))
                  => (thrown' = "none" /\ Len(faults') = Len(faults) + 1)]_vars

\* C19 happens: set_descent through the released handle of an earlier yield
\* has just raised ValueError, after a read of an Entry with an empty
\* hierarchy had returned -1 and dispatched its faults.
C19_Witness ==
  /\ thrown = "value_error"
  /\ prev_entry.h # <<>>
  /\ ~prev_entry.live
  /\ \E p \in passes : p.h = <<>> /\ ~p.ok
  /\ \E i \in 1..Len(faults) : faults[i].h = <<>>

(***************************************************************************)
(* C20: Entry::read on an entry that cannot be reopened                    *)
(***************************************************************************)

\* The hierarchy h names something that can be opened: its host files
\* exist and are regular files, and every deeper component is a header of
\* the archive the components before it name.
Reopens(h) ==
  /\ h # <<>>
  /\ \A i \in 1..Len(h[1].v) : HostKind(h[1].v[i]) = "file"
  /\ \A m \in 2..Len(h) :
       LET d == Decode(EntryBytes(pathhierarchy_prefix_until(h, m - 2)))
       IN /\ h[m].k = "s"
          /\ d.ok
          /\ \E j \in 1..Len(d.hdrs) : d.hdrs[j] = h[m].v[1]

\* The passes the read of the held entry i may have recorded in this step.
ReadPasses(i) ==
  {p \in passes' : /\ p.h = saved[i].h
                   /\ p.fresh = (saved[i].orch = <<>>)
                   /\ p.fin = ended
                   /\ (passes' # passes => p \notin passes)}

\* C20: no read of a held entry raises anything; a read that returns -1
\* has dispatched at least one fault; and the first read of an entry whose
\* hierarchy is empty, names a missing host file or names an entry its
\* archive does not have returns -1.
C20_ReadFailsWithFault ==
  [][\A i \in 1..Len(saved) :
       (\E n \in ReadSizes : EntryRead(i, n)) =>
          /\ thrown' = "none"
          /\ ReadPasses(i) # {}
          /\ \A p \in ReadPasses(i) :
               /\ ~p.ok => (Len(faults') > Len(faults)
                            /\ SubSeq(faults', 1, Len(faults)) = faults)
               /\ (saved[i].orch = <<>> /\ ~Reopens(saved[i].h)) => ~p.ok
               /\ Reopens(saved[i].h) => p.ok]_vars

\* C20 happens: the read of an entry made by hand, which names an entry q
\* that the archive R does not have, returned -1 and dispatched faults, and
\* nothing was raised.
C20_Witness ==
  /\ thrown = "none"
  /\ Len(saved) = 1
  /\ saved[1].h = <<Single("R"), Single("q")>>
  /\ \E p \in passes : p.h = saved[1].h /\ ~p.ok
  /\ \E i \in 1..Len(faults) : faults[i].h = saved[1].h

(***************************************************************************)
(* C21: two traversals with the same decisions                             *)
(***************************************************************************)

\* Entry::size: the length of the payload, 0 for a directory.
entry_size(h, isdir) == IF isdir \/ h = <<>> THEN 0 ELSE Len(EntryBytes(h))

\* What a caller observes of an entry.
Observed(h, isdir) == <<h, entry_size(h, isdir), isdir>>

\* The observations of the traversal so far.
Emitted == [k \in 1..Len(yielded) |-> Observed(yielded[k].h, yielded[k].isdir)]

\* A second traversal, from the iterator itx standing on its k-th entry e,
\* whose caller takes for each entry the descent decision that was taken
\* for the entry at the same position of the traversal so far: its
\* observations up to the length of that traversal, and whether it has
\* ended where that one has.
RECURSIVE Replay(_, _, _, _)
Replay(itx, e, k, acc) ==
  IF k >= Len(yielded) /\ ~ended THEN [seq |-> acc, ended |-> FALSE]
  ELSE Let(increment(itx, [e EXCEPT !.descent_enabled = yielded[k].desc]), LAMBDA r :
       IF r.kind # "entry" THEN [seq |-> acc, ended |-> TRUE]
       ELSE IF k >= Len(yielded) THEN [seq |-> Append(acc, Observed(r.e.h, r.e.isdir)),
                                       ended |-> FALSE]
       ELSE Replay(r.it, r.e, k + 1, Append(acc, Observed(r.e.h, r.e.isdir))))

\* The second traversal from its construction with the paths obj.
Second(obj) ==
  Let(fetch(begin(normalize_paths(obj).ret, it.options), <<>>), LAMBDA r :
  IF r.kind # "entry" THEN [seq |-> <<>>, ended |-> TRUE]
  ELSE IF yielded = <<>> THEN [seq |-> <<>>, ended |-> FALSE]
  ELSE Replay(r.it, r.e, 1, <<Observed(r.e.h, r.e.isdir)>>))

\* C21: a second traversal of the same roots with the same options, in
\* whichever form the roots are given, whose caller takes the same descent
\* decisions, emits the same (hierarchy, size, is_directory) tuples as the
\* traversal so far and ends where it ends.
C21_SameDecisionsSameSequence ==
  started =>
    \A forms \in RootForms :
      (\E obj \in forms : normalize_paths(obj).ret = it.paths) =>
         \A obj \in forms :
           /\ Second(obj).seq = Emitted
           /\ Second(obj).ended = ended

\* C21 happens: a traversal of the archive R has ended after the caller
\* disabled descent on the nested archive a, so that it emitted fewer
\* entries than the undisturbed traversal, and R can be named in three
\* forms.
C21_Witness ==
  /\ ended
  /\ it.paths = <<make_single_path("R")>>
  /\ \E k \in 1..Len(yielded) : yielded[k].h = <<Single("R"), Single("a")>> /\ ~yielded[k].desc
  /\ Len(yielded) >= 3
  /\ Len(yielded) < Len(Undisturbed(it.paths))
  /\ \E forms \in RootForms : Cardinality(forms) = 3 /\ PyStr("R") \in forms

(***************************************************************************)
(* C22: a reader's snapshot of a slot                                      *)
(***************************************************************************)

\* The positions of a call between the copy of the slot and its return.
HoldsSnapshot(t) == threads[t].pc \in {"get_unlock", "check", "invoke", "in_callback"}

\* C22: while threads replace a slot, a reader's snapshot of it is a whole
\* value that was installed in that slot before (the empty value if that
\* was installed), never a half-assigned one, and the callable the reader
\* calls is that snapshot, whatever the slot has come to hold since.
C22_SnapshotIsInstalledValue ==
  \A t \in Threads :
    /\ HoldsSnapshot(t) =>
         /\ threads[t].snapshot # TornValue
         /\ threads[t].snapshot \in slots[threads[t].from].installed
    /\ threads[t].pc = "in_callback" =>
         /\ threads[t].running = threads[t].snapshot
         /\ threads[t].running.k = "fn"

\* C22 happens: a thread is inside the factory it took a snapshot of while
\* another thread is in the middle of assigning the factory slot, which
\* holds neither the old nor the new value.
C22_Witness ==
  \E t \in Threads : \E u \in Threads \ {t} :
    /\ threads[t].pc = "in_callback"
    /\ threads[t].from = "factory"
    /\ threads[t].running.k = "fn"
    /\ threads[u].pc = "set_assigned"
    /\ threads[u].slot = "factory"
    /\ slots["factory"].value = TornValue

(***************************************************************************)
(* C23: no callable runs under a slot's lock                               *)
(***************************************************************************)

\* The thread t is about to call, or is inside, a callable it took from a
\* slot; a replacement it makes from inside the callable counts.
InFlight(t) == threads[t].pc \in {"invoke", "in_callback"} \/ threads[t].ret = "in_callback"

\* The thread t waits for the mutex of the slot s.
WaitsFor(t, s) ==
  \/ threads[t].pc = "set_lock" /\ threads[t].slot = s
  \/ threads[t].pc = "get_lock" /\ threads[t].from = s

\* The thread h can take its next step inside a critical section, whatever
\* the other threads do.
CanLeaveCriticalSection(h) ==
  ENABLED (\/ set_slot_assign(h) \/ set_slot_assigned(h) \/ set_slot_unlock(h)
           \/ get_slot_copy(h) \/ get_slot_unlock(h))

\* C23: no thread calls or runs a callable while it holds a slot's mutex;
\* and a thread that wants a slot, from another thread or from inside the
\* running callable itself, either finds the mutex free or finds it held
\* by a thread that is inside the getter or the setter, which leaves it
\* by its own steps without any call in flight having to return.
C23_NotInvokedUnderLock ==
  /\ \A t \in Threads : threads[t].pc \in {"check", "invoke", "in_callback", "idle"} =>
       \A s \in SlotNames : slots[s].lock # t
  /\ \A u \in Threads : \A s \in SlotNames :
       WaitsFor(u, s) =>
         \/ slots[s].lock = 0
         \/ /\ slots[s].lock \in Threads \ {u}
            /\ CanLeaveCriticalSection(slots[s].lock)

\* C23 happens: a thread replaces, from inside the callable it is running,
\* the slot that callable was taken from, and has the mutex, while the
\* thread that installed the callable waits for the same slot.
C23_Witness ==
  \E t \in Threads : \E u \in Threads \ {t} :
    /\ threads[t].ret = "in_callback"
    /\ threads[t].pc = "set_unlock"
    /\ threads[t].slot = threads[t].from
    /\ slots[threads[t].slot].lock = t
    /\ threads[u].sets > 0
    /\ WaitsFor(u, threads[t].slot)

(***************************************************************************)
(* C24: traversers on separate threads                                     *)
(***************************************************************************)

\* A traverser run alone from the iterator itx standing on its k-th entry
\* e, each entry leaving with the descent flag of w's entry at the same
\* position: the hierarchies it yields up to the number of w's entries,
\* and whether it has ended where w has.
RECURSIVE RunAlone(_, _, _, _, _)
RunAlone(w, itx, e, k, acc) ==
  IF k >= Len(w.yielded) /\ ~w.ended THEN [seq |-> acc, ended |-> FALSE]
  ELSE Let(increment(itx, [e EXCEPT !.descent_enabled = w.yielded[k].desc]), LAMBDA r :
       IF r.kind # "entry" THEN [seq |-> acc, ended |-> TRUE]
       ELSE IF k >= Len(w.yielded) THEN [seq |-> Append(acc, r.e.h), ended |-> FALSE]
       ELSE RunAlone(w, r.it, r.e, k + 1, Append(acc, r.e.h)))

\* The same from the traverser's construction with the roots of w.
Alone(w) ==
  Let(fetch(IteratorInit(w.it.paths), <<>>), LAMBDA r :
  IF r.kind # "entry" THEN [seq |-> <<>>, ended |-> TRUE]
  ELSE IF w.yielded = <<>> THEN [seq |-> <<>>, ended |-> FALSE]
  ELSE RunAlone(w, r.it, r.e, 1, <<r.e.h>>))

AliveStreams(c) == DOMAIN c.S
AliveDecoders(c) == DOMAIN c.A

\* Nothing of the cursor c is alive.
NothingAlive(c) == AliveStreams(c) = {} /\ AliveDecoders(c) = {}

\* The stream s of the cursor c reads the entry on the way to h, or h
\* itself.
OnPathTo(c, s, h) ==
  /\ Len(c.S[s].src) <= Len(h)
  /\ c.S[s].src = SubSeq(h, 1, Len(c.S[s].src))

\* C25: once the traversal has ended, by reaching its end or by being
\* dropped before, no stream and no decoder created for it is alive; at
\* every point before, dropping the traverser would leave none alive, no
\* stream or decoder is alive that the cursor holds no more, and, a fault
\* having unwound or not, the streams alive while an entry of a file or
\* an archive is current are those of the entries on the way to it, so
\* that none survives of an archive that failed to open or was left.
C25_AllReleased ==
  /\ ended => NothingAlive(it.o.c)
  /\ NothingAlive(destroy_cursor(it.o.c))
  /\ DestroyUnreferenced(it.o.c) = it.o.c
  /\ started /\ ~ended /\ ~entry.isdir =>
       \A s \in AliveStreams(it.o.c) : OnPathTo(it.o.c, s, entry.h)

\* C25 happens: in the traversal of R the decoder of the corrupt nested
\* archive c failed to open and the fault unwound to the engine, which
\* went on to the entry z; there the traverser was dropped, two entries
\* before the end, and nothing is alive.
C25_Witness ==
  /\ ended
  /\ entry = NoEntry
  /\ it.paths = <<make_single_path("R")>>
  /\ yielded # <<>>
  /\ yielded[Len(yielded)].h = <<Single("R"), Single("z")>>
  /\ <<Single("R"), Single("c")>> \in {yielded[Len(yielded)].fs[i] :
                                          i \in 1..Len(yielded[Len(yielded)].fs)}
  /\ Len(yielded) < Len(Undisturbed(it.paths))
  /\ NothingAlive(it.o.c)

(***************************************************************************)
(* C26: the merge of a single hierarchy                                    *)
(***************************************************************************)

\* The groups of one part that are pending in the manager.
PendingSingles == {i \in 1..Len(it.o.mv) : Len(it.o.mv[i].parts) = 1}

\* m is h with its final single component made a multi-volume component
\* that lists that component's name as its only part.
IsSinglePartGroupOf(m, h) ==
  /\ Len(m) = Len(h)
  /\ ParentOf(m) = ParentOf(h)
  /\ TailOf(h).k = "s"
  /\ TailOf(m).k = "m"
  /\ TailOf(m).v = <<TailOf(h).v[1]>>

\* C26 as stated: merge_multi_volume_sources of a one-element list [h] is
\* h itself.
C26_MergeOfOneIsItself ==
  \A i \in PendingSingles :
    merge_multi_volume_sources(it.o.mv[i].parts, it.o.mv[i].ord) = it.o.mv[i].parts[1]

\* C26, amended: merge_multi_volume_sources of a one-element list [h] is h
\* with its final component made a multi-volume component of one part, and
\* that is the hierarchy of the aggregated entry which the traversal
\* yields for a group of one part.
C26_MergeOfOneIsMultiVolume ==
  /\ \A i \in PendingSingles :
       IsSinglePartGroupOf(merge_multi_volume_sources(it.o.mv[i].parts, it.o.mv[i].ord),
                           it.o.mv[i].parts[1])
  /\ \A k \in 1..Len(yielded) :
       IsAggregate(k) /\ Len(TailOf(yielded[k].h).v) = 1 =>
         IsSinglePartGroupOf(yielded[k].h, yielded[LastPart(k)].h)

\* C26 happens: the entry D/g alone was marked as a group, the group was
\* activated and its aggregated entry, of one part, has been yielded, while
\* another group of one part is pending.
C26_Witness ==
  /\ PendingSingles # {}
  /\ \E k \in 1..Len(yielded) :
       /\ IsAggregate(k)
       /\ TailOf(yielded[k].h).v = <<"D/g">>
       /\ yielded[LastPart(k)].h = make_single_path("D/g")

(***************************************************************************)
(* C27: the shape of the cursor's stack                                    *)
(***************************************************************************)

\* The stack of the cursor c is empty or holds the root stream in its
\* first slot.
RootStreamAtBottom(c) ==
  c.stack # <<>> =>
    /\ c.stack[1] # 0
    /\ c.S[c.stack[1]].cls = "file"
    /\ Len(c.S[c.stack[1]].src) = 1

\* Every stream above the first slot is an entry-payload stream whose
\* parent is the decoder that reads the stream one slot below.
PayloadStreamsChained(c) ==
  \A i \in 2..Len(c.stack) :
    c.stack[i] # 0 =>
      /\ c.S[c.stack[i]].cls = "eps"
      /\ c.S[c.stack[i]].par \in DOMAIN c.A
      /\ c.A[c.S[c.stack[i]].par].sid = c.stack[i - 1]

\* The current archive is absent or wraps the stream directly below the
\* top slot.
CurrentArchiveBelowTop(c) ==
  c.cur # 0 =>
    /\ c.cur \in DOMAIN c.A
    /\ Len(c.stack) >= 2
    /\ c.A[c.cur].sid = c.stack[Len(c.stack) - 1]

\* C27: after any sequence of synchronize_to_hierarchy, descend, next,
\* ascend, reset and read, whether they returned or threw, a non-empty
\* stack has the root stream at index 0, every stream above it is an
\* entry-payload stream parented on the decoder of the stream one slot
\* below, and the current archive is the decoder on the stream directly
\* below the top slot, or absent.
C27_StackShape ==
  /\ RootStreamAtBottom(cursor.c)
  /\ PayloadStreamsChained(cursor.c)
  /\ CurrentArchiveBelowTop(cursor.c)

(***************************************************************************)
(* C28: descend                                                            *)
(***************************************************************************)

\* No decoder of the cursor c reads the stream sid.
NoDecoderOn(c, sid) == \A a \in DOMAIN c.A : c.A[a].sid # sid

\* The latest call on the cursor was op and returned without throwing.
Returned(op) == cursor.op = op /\ cursor.exc = "none"

\* C28: a descend() that succeeds was called with a stream and no decoder
\* on the stack top, has grown the depth by exactly one and has left a new
\* top slot without stream (and so without decoder); a descend() called
\* with no stream on the stack top throws and leaves the stack as it was;
\* and an empty top slot comes to hold a stream only by next() or
\* synchronize_to_hierarchy().
C28_DescendPushesEmptySlot ==
  /\ Returned("descend") =>
       /\ cursor.ret
       /\ has_stream(cursor.before)
       /\ NoDecoderOn(cursor.before, cursor.before.stack[Len(cursor.before.stack)])
       /\ cursor_depth(cursor.c) = cursor_depth(cursor.before) + 1
       /\ Len(cursor.c.stack) = Len(cursor.before.stack) + 1
       /\ ~has_stream(cursor.c)
       /\ SubSeq(cursor.c.stack, 1, Len(cursor.before.stack)) = cursor.before.stack
  /\ cursor.op = "descend" /\ ~has_stream(cursor.before) =>
       /\ cursor.exc # "none"
       /\ cursor.c.stack = cursor.before.stack
  /\ (/\ cursor.before.stack # <<>>
      /\ ~has_stream(cursor.before)
      /\ Len(cursor.c.stack) = Len(cursor.before.stack)
      /\ has_stream(cursor.c))
     => cursor.op \in {"next", "synchronize_to_hierarchy"}

\* C28 happens: inside the archive R, on its entry a, descend() has
\* returned true: the depth is 2 and the top slot is empty.
C28_Witness ==
  /\ Returned("descend")
  /\ cursor_depth(cursor.c) = 2
  /\ ~has_stream(cursor.c)
  /\ cursor.c.S[cursor.before.stack[2]].src = <<Single("R"), Single("a")>>
  /\ cursor.c.A[cursor.c.cur].sid = cursor.before.stack[2]

(***************************************************************************)
(* C29: descend starts the decoder at the first byte                       *)
(***************************************************************************)

\* A decoder opened on the stream sid of the cursor c after the stream was
\* rewound to the first byte of its payload.
OpenedFromFirstByte(c, sid) ==
  Let(stream_rewind(c, sid), LAMBDA rw :
  IF rw.exc # "none" THEN rw ELSE StreamArchive(rw.c, sid))

\* C29: whatever was read from the top stream before, descend() ends as a
\* decoder opened at the first byte of the stream's payload ends: it throws
\* when that one throws, and otherwise its decoder sees the same headers.
C29_DescendStartsAtFirstByte ==
  (cursor.op = "descend" /\ has_stream(cursor.before)) =>
    LET top == cursor.before.stack[Len(cursor.before.stack)]
    IN Let(OpenedFromFirstByte(cursor.before, top), LAMBDA first :
       /\ cursor.exc = first.exc
       /\ first.exc = "none" =>
            cursor.c.A[cursor.c.cur].hdrs = first.c.A[first.ret].hdrs)

(***************************************************************************)
(* C30: ascend                                                             *)
(***************************************************************************)

\* The names a sequence holds.
Names(parts) == {parts[i] : i \in 1..Len(parts)}

\* An ascend() called at depth zero returned false and changed nothing.
AscendAtDepthZero ==
  (cursor.op = "ascend" /\ cursor_depth(cursor.before) = 0) =>
    /\ cursor.exc = "none"
    /\ ~cursor.ret
    /\ cursor.c = cursor.before

\* An ascend() called above depth zero returned true and popped exactly one
\* slot; the decoder that is current afterwards is the parent of the one
\* left, untouched by the call, and stands at the entry that was descended
\* into.
AscendAboveDepthZero ==
  (cursor.op = "ascend" /\ cursor_depth(cursor.before) > 0) =>
    /\ cursor.exc = "none"
    /\ cursor.ret
    /\ cursor.c.stack = SubSeq(cursor.before.stack, 1, Len(cursor.before.stack) - 1)
    /\ cursor_depth(cursor.c) = cursor_depth(cursor.before) - 1
    /\ cursor.before.cur # 0 =>
         /\ cursor.c.cur = parent_archive(cursor.before, cursor.before.cur)
         /\ cursor.c.cur # 0 =>
              LET below == cursor.c.A[cursor.c.cur]
                  left == cursor.before.S[cursor.before.A[cursor.before.cur].sid]
              IN /\ below = cursor.before.A[cursor.c.cur]
                 /\ below.idx \in 1..Len(below.hdrs)
                 /\ below.hdrs[below.idx] \in Names(Parts(left))

\* C30: ascend() returns false and changes nothing at depth zero; above it,
\* it pops exactly one level and returns true, and the decoder below is
\* where the descent left it.
C30_Ascend == AscendAtDepthZero /\ AscendAboveDepthZero

(***************************************************************************)
(* C31: synchronize_to_hierarchy reuses the levels that match              *)
(***************************************************************************)

\* The level k (1-based) of the cursor c holds a stream that names the
\* prefix of target of k components.
LevelMatches(c, target, k) ==
  /\ k <= Len(c.stack)
  /\ k <= Len(target)
  /\ c.stack[k] # 0
  /\ hierarchies_equal(c.S[c.stack[k]].src, pathhierarchy_prefix_until(target, k - 1))

\* The number of levels, from the bottom, that match target.
RECURSIVE MatchedLevels(_, _, _)
MatchedLevels(c, target, k) ==
  IF LevelMatches(c, target, k + 1) THEN MatchedLevels(c, target, k + 1) ELSE k

\* The cursor c stands on target: every level of target matches.
Aligned(c, target) == target # <<>> /\ MatchedLevels(c, target, 0) = Len(target)

\* C31: in every state of the cursor and for every target,
\* synchronize_to_hierarchy keeps, on each level that names the matching
\* prefix of the target, the stream object that is there, where it stood;
\* and on a cursor
\* aligned with the target it returns true and changes nothing, so that a
\* read after it returns what the read would have returned without it.
C31_SynchronizeReusesMatchingLevels ==
  \A target \in CursorTargets :
    Let(synchronize_to_hierarchy(cursor.c, target), LAMBDA r :
    /\ \A k \in 1..MatchedLevels(cursor.c, target, 0) :
         /\ Len(r.c.stack) >= k
         /\ r.c.stack[k] = cursor.c.stack[k]
         /\ r.c.S[r.c.stack[k]] = cursor.c.S[cursor.c.stack[k]]
    /\ Aligned(cursor.c, target) =>
         /\ r.exc = "none"
         /\ r.ret
         /\ r.c = cursor.c
         /\ \A n \in ReadSizes : read(r.c, n) = read(cursor.c, n))

\* C31 happens: one byte of the root stream of R was read, and a
\* synchronize_to_hierarchy([R]) has returned with the stream still after
\* that byte.
C31_Witness ==
  /\ Returned("synchronize_to_hierarchy")
  /\ Aligned(cursor.before, <<Single("R")>>)
  /\ Len(cursor.before.stack) = 1
  /\ cursor.before.S[cursor.before.stack[1]].pos = 1
  /\ cursor.c.S[cursor.c.stack[1]].pos = 1
  /\ cursor.c = cursor.before

(***************************************************************************)
(* C32: synchronize_to_hierarchy leaves the target on top                  *)
(***************************************************************************)

\* The top slot of the cursor c holds a stream that names target, and the
\* stack has as many levels as target has components.
TargetOnTop(c, target) ==
  /\ Len(c.stack) = Len(target)
  /\ has_stream(c)
  /\ hierarchies_equal(c.S[c.stack[Len(c.stack)]].src, target)

\* C32: in every state of the cursor and for every target, a
\* synchronize_to_hierarchy that succeeds leaves the stream of the target
\* on the stack top with no level above it, and a read that follows
\* returns bytes of the target's payload.
C32_SynchronizeLeavesTargetOnTop ==
  \A target \in CursorTargets :
    Let(synchronize_to_hierarchy(cursor.c, target), LAMBDA r :
    (r.exc = "none" /\ r.ret) =>
      /\ TargetOnTop(r.c, target)
      /\ \A n \in ReadSizes :
           Let(read(r.c, n), LAMBDA d :
           d.exc = "none" =>
             \E i \in 0..Len(EntryBytes(target)) :
               d.ret = SubSeq(EntryBytes(target), i + 1, i + Len(d.ret))))

(***************************************************************************)
(* C33: read                                                               *)
(***************************************************************************)

\* The call read(buf, n) on the cursor c returned a byte count, or raised
\* an EntryFaultError.
ReadReturnsOrFaults(c, n) ==
  Let(read(c, n), LAMBDA d :
  \/ d.exc = "none" /\ Len(d.ret) \in 0..n
  \/ d.exc = "fault")

\* C33: in every state of the cursor, read(buf, n) returns the bytes of the
\* top stream or raises an EntryFaultError; it raises one when the stack
\* is empty, and it is not applied to a top slot without stream.
C33_ReadReturnsOrFaults ==
  \A n \in ReadSizes :
    /\ ReadReturnsOrFaults(cursor.c, n)
    /\ cursor.c.stack = <<>> => read(cursor.c, n).exc = "fault"
    /\ cursor.c.stack # <<>> => has_stream(cursor.c)

(***************************************************************************)
(* A stream driven directly: a SystemFileStream is constructed on a root   *)
(* and read and rewound by its owner.  The variable cursor holds the       *)
(* stream (slot 1 of an otherwise unused cursor), the latest call and the  *)
(* bytes returned since the stream was last Idle.                          *)
(***************************************************************************)

MaxStreamCalls == 4

\* Roots of the streams: a file, two files as a group in both orders, a
\* group whose later part is missing, a missing file, an unreadable file.
StreamRoots ==
  { <<Single("R")>>,
    <<MultiVolume(<<"p1", "p2">>, "G")>>,
    <<MultiVolume(<<"p2", "p1">>, "G")>>,
    <<MultiVolume(<<"p1", "p3">>, "G")>>,
    <<Single("p3")>>,
    <<Single("D/s/u")>> }

\* Sizes of the caller's buffer.
StreamReadSizes == {1, 2, 3}

\* The stream under test and its state.
TheStream == cursor.c.S[1]

IsIdle(s) == s.part = 0

IsOpen(s) == s.part \in 1..Len(Parts(s))

IsExhausted(s) == s.part > Len(Parts(s))

\* IDataStream::at_end
at_end(s) == s.end

\* std::make_shared<SystemFileStream>(h)
StreamInit(h) ==
  [c |-> [ArchiveStackCursor EXCEPT !.S = <<NewStream("file", h, 0)>>, !.stack = <<1>>],
   op |-> "none", n |-> 0, ret |-> <<>>, exc |-> "none", fh |-> <<>>,
   before |-> NewStream("file", h, 0), got |-> <<>>, calls |-> 0]

\* stream->read(buf, n): the bytes returned, or the EntryFaultError caught.
StreamRead(n) ==
  /\ cursor.calls < MaxStreamCalls
  /\ \E r \in {stream_read(cursor.c, 1, n, <<>>)} :
       cursor' = [c |-> r.c, op |-> "read", n |-> n,
                  ret |-> IF r.exc = "none" THEN r.ret ELSE <<>>,
                  exc |-> r.exc, fh |-> r.fh, before |-> TheStream,
                  got |-> IF r.exc = "none" THEN cursor.got \o r.ret ELSE <<>>,
                  calls |-> cursor.calls + 1]
  /\ CursorOnly

\* stream->rewind()
StreamRewind ==
  /\ cursor.calls < MaxStreamCalls
  /\ \E r \in {stream_rewind(cursor.c, 1)} :
       cursor' = [c |-> r.c, op |-> "rewind", n |-> 0, ret |-> <<>>,
                  exc |-> r.exc, fh |-> r.fh, before |-> TheStream,
                  got |-> <<>>, calls |-> cursor.calls + 1]
  /\ CursorOnly

InitStream ==
  /\ it = IteratorInit(<<>>)
  /\ entry = NoEntry
  /\ started = FALSE
  /\ ended = FALSE
  /\ last_entry = NoPyEntry
  /\ prev_entry = NoPyEntry
  /\ saved = <<>>
  /\ yielded = <<>>
  /\ faults = <<>>
  /\ passes = {}
  /\ thrown = "none"
  /\ used = [sd |-> 0, mk |-> 0, rd |-> 0, cp |-> 0, dr |-> 0]
  /\ slots = [s \in SlotNames |-> SlotInit]
  /\ threads = [t \in Threads |-> ThreadInit]
  /\ \E h \in StreamRoots : cursor = StreamInit(h)

NextStream ==
  \/ \E n \in StreamReadSizes : StreamRead(n)
  \/ StreamRewind

SpecStream == InitStream /\ [][NextStream]_vars

(***************************************************************************)
(* C34: a multi-volume stream reads the concatenation of its parts         *)
(***************************************************************************)

\* The bytes of the host files names, one after the other.
RECURSIVE Concatenation(_)
Concatenation(names) ==
  IF names = <<>> THEN <<>> ELSE HostBytes(Head(names)) \o Concatenation(Tail(names))

\* The bytes before the position of the stream s: the parts before the
\* open one and the bytes consumed of it.
Consumed(s) ==
  IF IsIdle(s) THEN <<>>
  ELSE IF IsExhausted(s) THEN Concatenation(Parts(s))
  ELSE Concatenation(SubSeq(Parts(s), 1, s.part - 1))
       \o SubSeq(HostBytes(Parts(s)[s.part]), 1, s.pos)

\* C34: the bytes returned since the stream was Idle are the concatenation
\* of its parts, in list order, up to the position of the stream, whose
\* open part is the one the position lies in; a read returns as many of
\* the following bytes as the buffer takes, across part boundaries; and
\* from an exhausted stream every read returns 0 bytes.
C34_ReadsConcatenation ==
  LET all == Concatenation(Parts(TheStream))
  IN /\ cursor.got = Consumed(TheStream)
     /\ cursor.got = SubSeq(all, 1, Len(cursor.got))
     /\ (cursor.op = "read" /\ cursor.exc = "none") =>
          LET was == Len(cursor.got) - Len(cursor.ret)
          IN /\ cursor.ret = SubSeq(all, was + 1, Min(was + cursor.n, Len(all)))
             /\ Len(cursor.ret) < cursor.n => IsExhausted(TheStream)
             /\ IsExhausted(cursor.before) => cursor.ret = <<>>
     /\ (cursor.op = "read" /\ IsExhausted(cursor.before)) => cursor.exc = "none"

\* C34 happens: one read of two bytes has returned both one-byte parts of
\* the group given as p2, p1, in that order, and a later read has returned
\* 0 bytes from the exhausted stream.
C34_Witness ==
  /\ Parts(TheStream) = <<"p2", "p1">>
  /\ cursor.got = <<11, 10>>
  /\ cursor.op = "read"
  /\ cursor.ret = <<>>
  /\ IsExhausted(cursor.before)
  /\ cursor.calls = 2

(***************************************************************************)
(* C35: at_end                                                             *)
(***************************************************************************)

open_failure(single_part) ==
  LET path == single_part[Len(single_part)].v[1]
  IN [path |-> path, errno |-> HostErrno(path)]

\* The 1-based index of the first part of the stream s that does not open,
\* or 0.
FirstUnopenable(s) ==
  LET ks == {k \in 1..Len(Parts(s)) : HostKind(Parts(s)[k]) # "file"}
  IN IF ks = {} THEN 0 ELSE CHOOSE k \in ks : \A j \in ks : k <= j

\* C36: a read that does not return has raised an EntryFaultError whose
\* hierarchy is the single part that failed to open, the first such part
\* of the stream, with that part's native path and a nonzero errno; the
\* stream has no part open afterwards; and the bytes consumed before the
\* call are the bytes of the parts before it.  A read that returns has
\* opened no such part.
C36_OpenFailureFaults ==
  LET k == FirstUnopenable(TheStream)
  IN /\ (cursor.op = "read" /\ cursor.exc # "none") =>
          /\ cursor.exc = "fault"
          /\ k # 0
          /\ cursor.fh = pathhierarchy_select_single_part(TheStream.src, k - 1)
          /\ cursor.fh[Len(cursor.fh)].k = "s"
          /\ open_failure(cursor.fh).path = Parts(TheStream)[k]
          /\ open_failure(cursor.fh).errno # 0
          /\ ~IsOpen(TheStream)
          /\ ~at_end(TheStream)
          /\ Consumed(cursor.before) =
               SubSeq(Concatenation(SubSeq(Parts(TheStream), 1, k - 1)), 1,
                      Len(Consumed(cursor.before)))
     /\ (cursor.op = "read" /\ cursor.exc = "none" /\ k # 0) =>
          /\ IsOpen(TheStream)
          /\ TheStream.part < k

\* C36 happens: the byte of p1 was returned by a read, and the next read
\* faulted on the missing part p3.
C36_Witness ==
  /\ Parts(TheStream) = <<"p1", "p3">>
  /\ cursor.op = "read"
  /\ cursor.exc = "fault"
  /\ cursor.fh = <<Single("p3")>>
  /\ cursor.before.part = 1
  /\ cursor.before.pos = 1
  /\ cursor.calls = 2

(***************************************************************************)
(* C37: skip_to_entry                                                      *)
(***************************************************************************)

\* The names asked for: the entries of the archives and a name that no
\* archive holds.
EntryNames == {"a", "b", "c", "z", "t", "p1", "p2", "f", "q"}

\* The archive a holds an entry called name.
HasEntry(a, name) == \E i \in 1..Len(a.hdrs) : a.hdrs[i] = name

\* C37: on every open decoder of the cursor and for every name,
\* skip_to_entry(name) returns true exactly when the archive has an entry
\* of that name, wherever the decoder stands; it then stands at that entry
\* with the payload unread, and the payload is read from its first byte.
C37_SkipToEntryPositions ==
  \A aid \in DOMAIN cursor.c.A : \A name \in EntryNames :
    Let(skip_to_entry(cursor.c, aid, name), LAMBDA r :
    /\ r.exc = "none"
    /\ r.ret <=> HasEntry(cursor.c.A[aid], name)
    /\ r.ret =>
         /\ current_entryname(r.c.A[aid]) = name
         /\ r.c.A[aid].ready
         /\ \A n \in StreamReadSizes :
              read_current(r.c, aid, n).ret = SubSeq(NameBytes(name), 1, Min(n, Len(NameBytes(name)))))

\* C37 happens: the decoder of R stood at its last entry t, past a, and a
\* synchronize_to_hierarchy([R, a]) has positioned it at a with the payload
\* unread.
C37_Witness ==
  /\ Returned("synchronize_to_hierarchy")
  /\ cursor.before.cur # 0
  /\ cursor.c.cur = cursor.before.cur
  /\ current_entryname(cursor.before.A[cursor.before.cur]) = "t"
  /\ cursor.before.S[cursor.before.A[cursor.before.cur].sid].src = <<Single("R")>>
  /\ current_entryname(cursor.c.A[cursor.c.cur]) = "a"
  /\ cursor.c.A[cursor.c.cur].ready

(***************************************************************************)
(* A multi-volume manager driven directly by mark and pop calls.  The      *)
(* manager is it.o.mv; yielded keeps the marks and saved the pops, in      *)
(* call order.                                                             *)
(***************************************************************************)

MaxManagerCalls == 3

\* The entry hierarchies marked: none, two parts in the archive R, a part
\* at the root level and an entry of the nested archive a.
MarkedHierarchies ==
  { <<>>,
    <<Single("R"), Single("p1")>>,
    <<Single("R"), Single("p2")>>,
    <<Single("p1")>>,
    <<Single("R"), Single("a"), Single("p1")>> }

\* The parents popped.
PoppedParents == {<<>>, <<Single("R")>>, <<Single("R"), Single("a")>>}

ManagerBaseNames == {"g", "h"}

\* manager.mark_entry_as_multi_volume(h, base, ord)
ManagerMark(h, base, ord) ==
  /\ Len(yielded) + Len(saved) < MaxManagerCalls
  /\ it' = [it EXCEPT !.o.mv = mark_entry_as_multi_volume(it.o.mv, h, base, ord)]
  /\ yielded' = Append(yielded, [h |-> h, base |-> base, ord |-> ord, pops |-> Len(saved)])
  /\ UNCHANGED <<entry, started, ended, last_entry, prev_entry, saved, faults, passes,
                 thrown, used, slots, threads, cursor>>

\* manager.pop_multi_volume_group(parent, out)
ManagerPop(parent) ==
  /\ Len(yielded) + Len(saved) < MaxManagerCalls
  /\ \E r \in {pop_multi_volume_group(it.o.mv, parent)} :
       /\ it' = [it EXCEPT !.o.mv = r.mv]
       /\ saved' = Append(saved, [parent |-> parent, found |-> r.found, parts |-> r.parts,
                                  ord |-> r.ord])
  /\ UNCHANGED <<entry, started, ended, last_entry, prev_entry, yielded, faults, passes,
                 thrown, used, slots, threads, cursor>>

InitManager ==
  /\ it = IteratorInit(<<>>)
  /\ entry = NoEntry
  /\ started = FALSE
  /\ ended = FALSE
  /\ last_entry = NoPyEntry
  /\ prev_entry = NoPyEntry
  /\ saved = <<>>
  /\ yielded = <<>>
  /\ faults = <<>>
  /\ passes = {}
  /\ thrown = "none"
  /\ used = [sd |-> 0, mk |-> 0, rd |-> 0, cp |-> 0, dr |-> 0]
  /\ InitProcess

NextManager ==
  \/ \E h \in MarkedHierarchies, base \in ManagerBaseNames, ord \in Orderings :
       ManagerMark(h, base, ord)
  \/ \E parent \in PoppedParents : ManagerPop(parent)

SpecManager == InitManager /\ [][NextManager]_vars

(***************************************************************************)
(* C38: what makes a group                                                 *)
(***************************************************************************)

\* The marks that count: a hierarchy that is not empty.
Marks == {i \in 1..Len(yielded) : yielded[i].h # <<>>}

\* Two marks agree in parent hierarchy, base name and ordering tag.
SameKey(i, j) ==
  /\ ParentOf(yielded[i].h) = ParentOf(yielded[j].h)
  /\ yielded[i].base = yielded[j].base
  /\ yielded[i].ord = yielded[j].ord

\* The hierarchies of the marks with the key of mark i, in marking order.
RECURSIVE MarkedLike(_, _)
MarkedLike(i, k) ==
  IF k > Len(yielded) THEN <<>>
  ELSE (IF k \in Marks /\ SameKey(i, k) THEN <<yielded[k].h>> ELSE <<>>) \o MarkedLike(i, k + 1)

\* The pending groups that hold the mark i.
GroupsOf(i) ==
  {g \in 1..Len(it.o.mv) :
     /\ it.o.mv[g].parent = ParentOf(yielded[i].h)
     /\ it.o.mv[g].base = yielded[i].base
     /\ it.o.mv[g].ord = yielded[i].ord}

\* C38: no two pending groups have the same parent, base name and ordering
\* tag, and every part of a group lies under the group's parent; while no
\* group has been popped, every mark is in exactly one group, and that
\* group lists exactly the marks of the same parent, base name and
\* ordering tag, so that two marks share a group if and only if they agree
\* in all three.
C38_GroupsByParentBaseOrdering ==
  LET mv == it.o.mv
  IN /\ \A g, k \in 1..Len(mv) :
          (mv[g].parent = mv[k].parent /\ mv[g].base = mv[k].base /\ mv[g].ord = mv[k].ord)
            => g = k
     /\ \A g \in 1..Len(mv) :
          /\ mv[g].parts # <<>>
          /\ \A p \in 1..Len(mv[g].parts) : ParentOf(mv[g].parts[p]) = mv[g].parent
     /\ saved = <<>> =>
          /\ \A i \in Marks :
               /\ Cardinality(GroupsOf(i)) = 1
               /\ \A g \in GroupsOf(i) : mv[g].parts = MarkedLike(i, 1)
          /\ \A i, j \in Marks : (GroupsOf(i) = GroupsOf(j)) <=> SameKey(i, j)
          /\ \A g \in 1..Len(mv) : \E i \in Marks : g \in GroupsOf(i)

\* C38 happens: three entries of R were marked, two with the same base
\* name and ordering and one with another ordering: two groups are
\* pending, the first with two parts.
C38_Witness ==
  /\ saved = <<>>
  /\ Len(yielded) = 3
  /\ \A i \in 1..3 : ParentOf(yielded[i].h) = <<Single("R")>> /\ yielded[i].base = "g"
  /\ yielded[1].ord = "N" /\ yielded[2].ord = "G" /\ yielded[3].ord = "N"
  /\ Len(it.o.mv) = 2
  /\ Len(it.o.mv[1].parts) = 2
  /\ Len(it.o.mv[2].parts) = 1

(***************************************************************************)
(* C39: pop hands out the groups first marked first                        *)
(***************************************************************************)

\* The marks pending just before the k-th pop (for k one past the pops:
\* now), and the marks the k-th pop is to hand out: of the pending marks
\* under its parent, the earliest and those that agree with it in parent,
\* base name and ordering.
RECURSIVE PendingBefore(_)
RECURSIVE HandedOut(_)
PendingBefore(k) ==
  {i \in Marks : yielded[i].pops = k - 1}
    \cup (IF k = 1 THEN {} ELSE PendingBefore(k - 1) \ HandedOut(k - 1))

HandedOut(k) ==
  LET under == {i \in PendingBefore(k) : ParentOf(yielded[i].h) = saved[k].parent}
  IN IF under = {} THEN {}
     ELSE LET first == CHOOSE i \in under : \A j \in under : i <= j
          IN {i \in PendingBefore(k) : SameKey(i, first)}

\* The hierarchies of the marks in the set is, in marking order.
RECURSIVE HierarchiesOf(_, _)
HierarchiesOf(is, k) ==
  IF k > Len(yielded) THEN <<>>
  ELSE (IF k \in is THEN <<yielded[k].h>> ELSE <<>>) \o HierarchiesOf(is, k + 1)

\* C39: every pop found a group exactly when a mark was pending under its
\* parent, and then handed out the group of the earliest such mark: the
\* pending marks of that parent, base name and ordering, in marking order;
\* what is pending now is what was marked and not handed out by any pop, so
\* no mark is handed out twice; and a mark of the empty hierarchy is never
\* pending.
C39_PopFirstMarkedFirst ==
  LET now == PendingBefore(Len(saved) + 1)
  IN /\ \A k \in 1..Len(saved) :
          /\ saved[k].found <=> HandedOut(k) # {}
          /\ saved[k].parts = HierarchiesOf(HandedOut(k), 1)
          /\ saved[k].found =>
               \A i \in HandedOut(k) : saved[k].ord = yielded[i].ord
     /\ \A k, q \in 1..Len(saved) : k # q => HandedOut(k) \cap HandedOut(q) = {}
     /\ \A i \in now :
          /\ Cardinality(GroupsOf(i)) = 1
          /\ \A g \in GroupsOf(i) :
               it.o.mv[g].parts = HierarchiesOf({j \in now : SameKey(i, j)}, 1)
     /\ \A g \in 1..Len(it.o.mv) : \E i \in now : g \in GroupsOf(i)
     /\ \A i \in 1..Len(yielded) : yielded[i].h = <<>> => i \notin now

\* C39 happens: under R two groups were marked, and a pop of R has handed
\* out the group marked first; the other is still pending.
C39_Witness ==
  /\ Len(yielded) = 2
  /\ Len(saved) = 1
  /\ yielded[1].h = <<Single("R"), Single("p2")>>
  /\ yielded[2].h = <<Single("R"), Single("p1")>>
  /\ ~SameKey(1, 2)
  /\ yielded[2].pops = 0
  /\ saved[1].parent = <<Single("R")>>
  /\ saved[1].found
  /\ saved[1].parts = <<yielded[1].h>>
  /\ Len(it.o.mv) = 1
  /\ it.o.mv[1].parts = <<yielded[2].h>>

(***************************************************************************)
(* An increment taken one cursor step at a time                            *)
(***************************************************************************)

\* One pass of ArchiveStackOrchestrator::advance up to its next cursor step:
\* the descent the caller allowed, or one turn of the loop (the pending
\* group of the current archive is taken, the cursor moves to the next
\* header, and at the end of the archive the group is activated or the
\* cursor ascends).  The kind "again" says that the loop goes round.
advance_step(o, allow_descend, fs) ==
  LET c == o.c
  IN IF allow_descend
     THEN Let(descend(c), LAMBDA d :
          IF d.exc = "fault" THEN ARes([o EXCEPT !.c = d.c], "again", <<>>, "none", Append(fs, d.fh))
          ELSE IF d.exc # "none" THEN ARes([o EXCEPT !.c = d.c], "throw", <<>>, d.exc, fs)
          ELSE ARes([o EXCEPT !.c = d.c], "again", <<>>, "none", fs))
     ELSE Let(pop_multi_volume_group(o.mv, current_parent_hierarchy(c)), LAMBDA g :
          IF c.cur = 0
          THEN IF ~g.found THEN ARes(o, "done", <<>>, "none", fs)
               ELSE Let(merge_multi_volume_sources(g.parts, g.ord), LAMBDA merged :
                    Let(synchronize_to_hierarchy(c, merged), LAMBDA s0 :
                    IF s0.exc = "fault"
                    THEN ARes([c |-> s0.c, mv |-> g.mv], "again", <<>>, "none", Append(fs, merged))
                    ELSE IF s0.exc # "none"
                    THEN ARes([c |-> s0.c, mv |-> g.mv], "throw", <<>>, s0.exc, fs)
                    ELSE ARes([c |-> s0.c, mv |-> g.mv], "entry", merged, "none", fs)))
          ELSE Let(next(IF AtMultiVolumeStream(c) THEN skip_to_eof(c, c.cur) ELSE c), LAMBDA n :
               IF n.exc = "fault"
               THEN ARes([o EXCEPT !.c = n.c], "again", <<>>, "none", Append(fs, n.fh))
               ELSE IF n.exc # "none" THEN ARes([o EXCEPT !.c = n.c], "throw", <<>>, n.exc, fs)
               ELSE IF n.ret
               THEN ARes([o EXCEPT !.c = n.c], "entry", current_entry_hierarchy(n.c), "none", fs)
               ELSE IF g.found
               THEN Let(merge_multi_volume_sources(g.parts, g.ord), LAMBDA merged :
                    Let(synchronize_to_hierarchy(n.c, merged), LAMBDA s :
                    IF s.exc = "fault"
                    THEN ARes([c |-> IF s.c.cur # 0 THEN skip_to_eof(s.c, s.c.cur) ELSE s.c,
                               mv |-> g.mv], "again", <<>>, "none", Append(fs, merged))
                    ELSE IF s.exc # "none"
                    THEN ARes([c |-> s.c, mv |-> g.mv], "throw", <<>>, s.exc, fs)
                    ELSE ARes([c |-> s.c, mv |-> g.mv], "entry", merged, "none", fs)))
               ELSE Let(ascend(n.c), LAMBDA a :
                    ARes([o EXCEPT !.c = a.c], "again", <<>>, "none", fs))))

\* The most cursor steps of one advance that the history counts.
MaxCursorSteps == 4

\* No advance is running: the caller holds the iterator.
AdvanceIdle ==
  [pc |-> "idle", allow |-> FALSE, fs |-> <<>>, steps |-> 0, most |-> 0, advances |-> 0]

\* The iterator's first fetch, and the increment past a directory entry:
\* neither runs the orchestrator's loop.
IteratorFetch ==
  /\ cursor.pc = "idle"
  /\ ~started \/ entry.isdir
  /\ PyTraverser_next

\* PyTraverser::next past an archive or file entry enters
\* ArchiveStackOrchestrator::advance.
AdvanceEnter ==
  /\ cursor.pc = "idle"
  /\ started
  /\ ~ended
  /\ ~entry.isdir
  /\ cursor' = [cursor EXCEPT !.pc = "run", !.allow = entry.descent_enabled, !.fs = <<>>,
                              !.steps = 0, !.advances = Min(@ + 1, MaxCursorSteps)]
  /\ UNCHANGED <<it, entry, started, ended, last_entry, prev_entry, saved, yielded, faults,
                 passes, thrown, used, slots, threads>>

\* One cursor step of the running advance.  When the loop goes round the
\* call is still running; otherwise the increment finishes as in
\* Traverser::Iterator::operator++ and PyTraverser::next returns.
AdvanceStep ==
  /\ cursor.pc = "run"
  /\ \E a \in {advance_step(it.o, cursor.allow, cursor.fs)} :
       LET n == Min(cursor.steps + 1, MaxCursorSteps)
           itera == [it EXCEPT !.o = a.o]
       IN IF a.kind = "again"
          THEN /\ it' = itera
               /\ cursor' = [cursor EXCEPT !.allow = FALSE, !.fs = a.fs, !.steps = n]
               /\ UNCHANGED <<entry, ended, last_entry, prev_entry, yielded, faults, thrown>>
          ELSE \E r \in {IF a.kind = "entry"
                         THEN IRes(itera, "entry",
                                   Entry(a.h, FALSE, TRUE, it.options.descend_archives),
                                   "none", a.fs)
                         ELSE IF a.kind = "throw" THEN IRes(itera, "throw", NoEntry, a.exc, a.fs)
                         ELSE fetch(itera, a.fs)} :
                 /\ it' = r.it
                 /\ entry' = r.e
                 /\ ended' = (r.kind # "entry")
                 /\ last_entry' = IF r.kind = "entry" THEN PyEntry(r.e) ELSE NoPyEntry
                 /\ prev_entry' = release_live_entry(last_entry)
                 /\ yielded' = IF r.kind = "entry" THEN Append(yielded, Yield(r.e, r.fs))
                               ELSE yielded
                 /\ faults' = faults \o Stamp(r.fs, Len(yielded))
                 /\ thrown' = r.exc
                 /\ cursor' = [cursor EXCEPT !.pc = "idle", !.steps = n,
                                             !.most = IF n > @ THEN n ELSE @]
  /\ UNCHANGED <<started, saved, passes, used, slots, threads>>

InitAdvance ==
  /\ it \in {IteratorInit(paths) : paths \in RootLists}
  /\ entry = NoEntry
  /\ started = FALSE
  /\ ended = FALSE
  /\ last_entry = NoPyEntry
  /\ prev_entry = NoPyEntry
  /\ saved = <<>>
  /\ yielded = <<>>
  /\ faults = <<>>
  /\ passes = {}
  /\ thrown = "none"
  /\ used = [sd |-> 0, mk |-> 0, rd |-> 0, cp |-> 0, dr |-> 0]
  /\ slots = [s \in SlotNames |-> SlotInit]
  /\ threads = [t \in Threads |-> ThreadInit]
  /\ cursor = AdvanceIdle

\* Between two calls of next the caller steers descent and marks parts of
\* split archives.
NextAdvance ==
  \/ IteratorFetch
  \/ AdvanceEnter
  \/ AdvanceStep
  \/ \E enabled \in BOOLEAN : cursor.pc = "idle" /\ SetDescent(enabled)
  \/ \E base \in BaseNames, ord \in Orderings : cursor.pc = "idle" /\ SetMultiVolumeGroup(base, ord)

\* The caller keeps calling next until the iterator is at its end, and a
\* call that is running keeps running.
SpecAdvance ==
  /\ InitAdvance
  /\ [][NextAdvance]_vars
  /\ WF_vars(IteratorFetch \/ AdvanceEnter)
  /\ WF_vars(AdvanceStep)

\* A fault of the traversal whose hierarchy ends in a part list: a pending
\* multi-volume group that could not be activated.
GroupNotActivated(f) == f.h # <<>> /\ f.h[Len(f.h)].k = "m" /\ Len(f.h) > 1

\* A fault of the traversal at a single entry inside an archive: a descent
\* that failed.
DescentFailed(f) == Len(f.h) > 1 /\ f.h[Len(f.h)].k = "s"

\* C40: iteration terminates.  Every advance that is running returns after
\* finitely many cursor steps, and the iterator reaches its end after
\* finitely many advances, also when descents fail or a pending
\* multi-volume group cannot be activated.
C40_IterationTerminates ==
  /\ (cursor.pc = "run") ~> (cursor.pc = "idle")
  /\ <>(ended /\ cursor.pc = "idle")

\* C40 happens: the iterator is at its end after a traversal in which a
\* descent failed, a pending group could not be activated, and one advance
\* went round the loop until it had taken three cursor steps.
C40_Witness ==
  /\ ended
  /\ cursor.pc = "idle"
  /\ thrown = "none"
  /\ cursor.most >= 3
  /\ cursor.advances >= 3
  /\ \E i \in 1..Len(faults) : GroupNotActivated(faults[i])
  /\ \E i \in 1..Len(faults) : DescentFailed(faults[i])

====
